---- MODULE Spec2Model ----
(***************************************************************************)
(* Model of the c0lor-mem backend (src/python/app):                        *)
(*   - HDR gain-map JPEG container assembly   (core/hdr_gainmap.py)        *)
(*   - ICC v2 profile construction            (core/color_space.py)        *)
(*   - batch export jobs                      (services/batch_service.py,  *)
(*                                             services/batch_manager.py)  *)
(* Byte strings are sequences of integers 0..255.  Python indices are      *)
(* 0-based; Slice(s, a, b) is Python's s[a:b].                             *)
(***************************************************************************)
EXTENDS Integers, Sequences, FiniteSets, TLC

VARIABLES
    \* ---- container assembly (core/hdr_gainmap.py) ----
    fn,             \* container operation invoked last ("none" before any call)
    sdr_size,       \* create_*: <<W, H>> of sdr_img (<<0, 0>> otherwise)
    gain_map_size,  \* create_*: <<W, H>> of the image encoded as gain map
    sdr_jpeg,       \* sdr_jpeg argument reaching _build_mpf_jpeg
    gainmap_jpeg,   \* gainmap_jpeg argument reaching _build_mpf_jpeg
    primary_xmp,    \* primary_xmp argument reaching _build_mpf_jpeg
    peak_nits,      \* peak_nits argument
    result,         \* [err, bytes]: what the operation returned or raised
    output_file     \* [exists, bytes]: the file at output_path

containerVars ==
    <<fn, sdr_size, gain_map_size, sdr_jpeg, gainmap_jpeg, primary_xmp,
      peak_nits, result, output_file>>

VARIABLES
    \* ---- batch export jobs (services/batch_service.py, batch_manager.py) ----
    impl,           \* "batch_service" or "batch_manager": the module in use
    batch_jobs,     \* keys of _batch_jobs / _jobs (dict order = ascending id)
    batch_cancel,   \* _batch_cancel / _cancel_flags: id -> BOOLEAN
    created_times,  \* BatchJobManager._created_times: id -> time
    tasks,          \* id -> the _execute_batch task: request, apl_values,
                    \*       pc, index of the next APL, its BatchStatus object
    notified,       \* id -> the BatchStatus snapshots passed to _notify_progress
    attempted,      \* id -> <<apl, outcome>> of every try block entered
    running_task,   \* id of the task holding the event loop, 0 if none
    now,            \* time.time()
    \* ---- progress broadcast (api/modules/test_pattern.py, main.py) ----
    _ws_clients,    \* the module-level set of connected WebSocket clients
    progress_call   \* the last direct call of _notify_progress: arguments,
                    \* clients connected, send tasks created, exception
                    \* raised inside the callback

progressVars == <<_ws_clients, progress_call>>

batchVars ==
    <<impl, batch_jobs, batch_cancel, created_times, tasks, notified, attempted,
      running_task, now, progressVars>>

VARIABLES
    \* ---- ICC profiles (core/color_space.py) ----
    icc_cache,      \* _icc_cache: color space -> profile bytes
    icc_files,      \* color spaces with a bundled profile file on disk
    icc_result,     \* the last get_icc_profile call and what it returned
    icc_threads     \* thread -> its call of get_icc_profile: position in the
                    \*           function, argument, local data, returned bytes

iccVars == <<icc_cache, icc_files, icc_result, icc_threads>>

VARIABLES
    \* ---- single exports (services/export_service.py) and the functions of
    \*      core/pq.py and core/pattern_generator.py called on their own ----
    export_fn,      \* the function invoked ("none" before the call)
    export_args,    \* its arguments
    export_out      \* what it returned, raised or wrote

exportVars == <<export_fn, export_args, export_out>>

vars == <<containerVars, batchVars, iccVars, exportVars>>

(***************************************************************************)
(* Bounds of the model.                                                    *)
(***************************************************************************)
\* Number of filler bytes in the entropy-coded part of the modelled JPEG blobs.
MaxScan == 1

(***************************************************************************)
(* Byte-string helpers (Python bytes / struct semantics).                  *)
(***************************************************************************)
Min(a, b) == IF a < b THEN a ELSE b

\* Python s[a:b] for 0 <= a, 0 <= b (clipped to the length of s).
Slice(s, a, b) == SubSeq(s, a + 1, Min(b, Len(s)))

\* Python s[a:]
SliceFrom(s, a) == SubSeq(s, a + 1, Len(s))

\* struct.pack(">H", n); the caller guards n <= 65535 (struct.error otherwise).
PackH(n) == <<n \div 256, n % 256>>

\* struct.pack(">I", n)
PackI(n) ==
    <<(n \div 16777216) % 256, (n \div 65536) % 256, (n \div 256) % 256, n % 256>>

\* struct.unpack(">H", b)[0] for a 2-byte b
UnpackH(b) == b[1] * 256 + b[2]

\* struct.unpack(">I", b)[0] for a 4-byte b
UnpackI(b) == b[1] * 16777216 + b[2] * 65536 + b[3] * 256 + b[4]

\* struct.pack_into(">I", buf, pos, n): overwrite 4 bytes at 0-based pos.
PackIntoI(buf, pos, n) ==
    [i \in 1..Len(buf) |->
        IF i > pos /\ i <= pos + 4 THEN PackI(n)[i - pos] ELSE buf[i]]

\* A returned byte string, and a raised exception.
Return(b) == [err |-> "", bytes |-> b]

Raise(e) == [err |-> e, bytes |-> <<>>]

SOI == <<255, 216>>

EOI == <<255, 217>>

\* b"Exif\x00\x00"
ExifSig == <<69, 120, 105, 102, 0, 0>>

\* b"http://ns.adobe.com/xap/1.0/\x00"
xmp_header ==
    <<104, 116, 116, 112, 58, 47, 47, 110, 115, 46, 97, 100, 111, 98, 101, 46,
      99, 111, 109, 47, 120, 97, 112, 47, 49, 46, 48, 47, 0>>

\* b"MPF\x00"
MpfSig == <<77, 80, 70, 0>>

\* b"MM"
ByteOrderMM == <<77, 77>>

(***************************************************************************)
(* XMP builders.                                                           *)
(***************************************************************************)
\* The peak luminances the model draws peak_nits from (hdr_peak_nits is
\* validated to 200..10000 by the request models).
Peaks == {200, 1000, 10000}

\* f"{math.log2(peak_nits / 203.0):.6f}" encoded as ASCII, tabulated for Peaks:
\* "-0.021480", "2.300448", "5.622376".
FormatGainMapMax(peak) ==
    CASE peak = 200   -> <<45, 48, 46, 48, 50, 49, 52, 56, 48>>
      [] peak = 1000  -> <<50, 46, 51, 48, 48, 52, 52, 56>>
      [] peak = 10000 -> <<53, 46, 54, 50, 50, 51, 55, 54>>

\* str(n).encode() for n >= 0: the decimal digits of n.
RECURSIVE FormatInt(_)
FormatInt(n) ==
    IF n < 10 THEN <<48 + n>> ELSE FormatInt(n \div 10) \o <<48 + (n % 10)>>

\* "<?xpacket begin='<BOM>' id='W5M0MpCehiHzreSzNTczkc9d'?>\n<x:xmpmeta xmlns:x='adobe:ns:meta/'>\n  <rdf:RDF xmlns:rdf='http://www.w3.org/1999/02/22-rdf-syntax-ns#'>\n    <rdf:Description rdf:about=''\n      xmlns:HDRGainMap='http://ns.apple.com/HDRGainMap/1.0/'\n      HDRGainMap:HDRGainMapVersion='65536'\n      HDRGainMap:HDRGainMapHeadroom='"
ApplePrimaryXmpLit1 ==
    <<60, 63, 120, 112, 97, 99, 107, 101, 116, 32, 98, 101, 103, 105, 110, 61, 39, 239, 187, 191, 39,
      32, 105, 100, 61, 39, 87, 53, 77, 48, 77, 112, 67, 101, 104, 105, 72, 122, 114, 101, 83, 122,
      78, 84, 99, 122, 107, 99, 57, 100, 39, 63, 62, 10, 60, 120, 58, 120, 109, 112, 109, 101, 116,
      97, 32, 120, 109, 108, 110, 115, 58, 120, 61, 39, 97, 100, 111, 98, 101, 58, 110, 115, 58, 109,
      101, 116, 97, 47, 39, 62, 10, 32, 32, 60, 114, 100, 102, 58, 82, 68, 70, 32, 120, 109, 108, 110,
      115, 58, 114, 100, 102, 61, 39, 104, 116, 116, 112, 58, 47, 47, 119, 119, 119, 46, 119, 51, 46,
      111, 114, 103, 47, 49, 57, 57, 57, 47, 48, 50, 47, 50, 50, 45, 114, 100, 102, 45, 115, 121, 110,
      116, 97, 120, 45, 110, 115, 35, 39, 62, 10, 32, 32, 32, 32, 60, 114, 100, 102, 58, 68, 101, 115,
      99, 114, 105, 112, 116, 105, 111, 110, 32, 114, 100, 102, 58, 97, 98, 111, 117, 116, 61, 39, 39,
      10, 32, 32, 32, 32, 32, 32, 120, 109, 108, 110, 115, 58, 72, 68, 82, 71, 97, 105, 110, 77, 97,
      112, 61, 39, 104, 116, 116, 112, 58, 47, 47, 110, 115, 46, 97, 112, 112, 108, 101, 46, 99, 111,
      109, 47, 72, 68, 82, 71, 97, 105, 110, 77, 97, 112, 47, 49, 46, 48, 47, 39, 10, 32, 32, 32, 32,
      32, 32, 72, 68, 82, 71, 97, 105, 110, 77, 97, 112, 58, 72, 68, 82, 71, 97, 105, 110, 77, 97,
      112, 86, 101, 114, 115, 105, 111, 110, 61, 39, 54, 53, 53, 51, 54, 39, 10, 32, 32, 32, 32, 32,
      32, 72, 68, 82, 71, 97, 105, 110, 77, 97, 112, 58, 72, 68, 82, 71, 97, 105, 110, 77, 97, 112,
      72, 101, 97, 100, 114, 111, 111, 109, 61, 39>>

\* "'\n    />\n  </rdf:RDF>\n</x:xmpmeta>\n<?xpacket end='w'?>"
ApplePrimaryXmpLit2 ==
    <<39, 10, 32, 32, 32, 32, 47, 62, 10, 32, 32, 60, 47, 114, 100, 102, 58, 82, 68, 70, 62, 10, 60,
      47, 120, 58, 120, 109, 112, 109, 101, 116, 97, 62, 10, 60, 63, 120, 112, 97, 99, 107, 101, 116,
      32, 101, 110, 100, 61, 39, 119, 39, 63, 62>>

\* "<?xpacket begin='<BOM>' id='W5M0MpCehiHzreSzNTczkc9d'?>\n<x:xmpmeta xmlns:x='adobe:ns:meta/'>\n  <rdf:RDF xmlns:rdf='http://www.w3.org/1999/02/22-rdf-syntax-ns#'>\n    <rdf:Description rdf:about=''\n      xmlns:HDRGainMap='http://ns.apple.com/HDRGainMap/1.0/'\n      xmlns:apdi='http://ns.apple.com/pixeldatainfo/1.0/'\n      HDRGainMap:HDRGainMapVersion='65536'\n      HDRGainMap:HDRGainMapHeadroom='"
AppleGainmapXmpLit1 ==
    <<60, 63, 120, 112, 97, 99, 107, 101, 116, 32, 98, 101, 103, 105, 110, 61, 39, 239, 187, 191, 39,
      32, 105, 100, 61, 39, 87, 53, 77, 48, 77, 112, 67, 101, 104, 105, 72, 122, 114, 101, 83, 122,
      78, 84, 99, 122, 107, 99, 57, 100, 39, 63, 62, 10, 60, 120, 58, 120, 109, 112, 109, 101, 116,
      97, 32, 120, 109, 108, 110, 115, 58, 120, 61, 39, 97, 100, 111, 98, 101, 58, 110, 115, 58, 109,
      101, 116, 97, 47, 39, 62, 10, 32, 32, 60, 114, 100, 102, 58, 82, 68, 70, 32, 120, 109, 108, 110,
      115, 58, 114, 100, 102, 61, 39, 104, 116, 116, 112, 58, 47, 47, 119, 119, 119, 46, 119, 51, 46,
      111, 114, 103, 47, 49, 57, 57, 57, 47, 48, 50, 47, 50, 50, 45, 114, 100, 102, 45, 115, 121, 110,
      116, 97, 120, 45, 110, 115, 35, 39, 62, 10, 32, 32, 32, 32, 60, 114, 100, 102, 58, 68, 101, 115,
      99, 114, 105, 112, 116, 105, 111, 110, 32, 114, 100, 102, 58, 97, 98, 111, 117, 116, 61, 39, 39,
      10, 32, 32, 32, 32, 32, 32, 120, 109, 108, 110, 115, 58, 72, 68, 82, 71, 97, 105, 110, 77, 97,
      112, 61, 39, 104, 116, 116, 112, 58, 47, 47, 110, 115, 46, 97, 112, 112, 108, 101, 46, 99, 111,
      109, 47, 72, 68, 82, 71, 97, 105, 110, 77, 97, 112, 47, 49, 46, 48, 47, 39, 10, 32, 32, 32, 32,
      32, 32, 120, 109, 108, 110, 115, 58, 97, 112, 100, 105, 61, 39, 104, 116, 116, 112, 58, 47, 47,
      110, 115, 46, 97, 112, 112, 108, 101, 46, 99, 111, 109, 47, 112, 105, 120, 101, 108, 100, 97,
      116, 97, 105, 110, 102, 111, 47, 49, 46, 48, 47, 39, 10, 32, 32, 32, 32, 32, 32, 72, 68, 82, 71,
      97, 105, 110, 77, 97, 112, 58, 72, 68, 82, 71, 97, 105, 110, 77, 97, 112, 86, 101, 114, 115,
      105, 111, 110, 61, 39, 54, 53, 53, 51, 54, 39, 10, 32, 32, 32, 32, 32, 32, 72, 68, 82, 71, 97,
      105, 110, 77, 97, 112, 58, 72, 68, 82, 71, 97, 105, 110, 77, 97, 112, 72, 101, 97, 100, 114,
      111, 111, 109, 61, 39>>

\* "'\n      apdi:AuxiliaryImageType='urn:com:apple:photo:2020:aux:hdrgainmap'\n    />\n  </rdf:RDF>\n</x:xmpmeta>\n<?xpacket end='w'?>"
AppleGainmapXmpLit2 ==
    <<39, 10, 32, 32, 32, 32, 32, 32, 97, 112, 100, 105, 58, 65, 117, 120, 105, 108, 105, 97, 114,
      121, 73, 109, 97, 103, 101, 84, 121, 112, 101, 61, 39, 117, 114, 110, 58, 99, 111, 109, 58, 97,
      112, 112, 108, 101, 58, 112, 104, 111, 116, 111, 58, 50, 48, 50, 48, 58, 97, 117, 120, 58, 104,
      100, 114, 103, 97, 105, 110, 109, 97, 112, 39, 10, 32, 32, 32, 32, 47, 62, 10, 32, 32, 60, 47,
      114, 100, 102, 58, 82, 68, 70, 62, 10, 60, 47, 120, 58, 120, 109, 112, 109, 101, 116, 97, 62,
      10, 60, 63, 120, 112, 97, 99, 107, 101, 116, 32, 101, 110, 100, 61, 39, 119, 39, 63, 62>>

\* "<?xpacket begin='<BOM>' id='W5M0MpCehiHzreSzNTczkc9d'?>\n<x:xmpmeta xmlns:x='adobe:ns:meta/'>\n  <rdf:RDF xmlns:rdf='http://www.w3.org/1999/02/22-rdf-syntax-ns#'>\n    <rdf:Description rdf:about=''\n      xmlns:hdrgm='http://ns.adobe.com/hdr-gain-map/1.0/'\n      xmlns:Container='http://ns.google.com/photos/1.0/container/'\n      xmlns:Item='http://ns.google.com/photos/1.0/container/item/'\n      hdrgm:Version='1.0'>\n      <Container:Directory>\n        <rdf:Seq>\n          <rdf:li rdf:parseType='Resource'>\n            <Container:Item Item:Semantic='Primary' Item:Mime='image/jpeg'/>\n          </rdf:li>\n          <rdf:li rdf:parseType='Resource'>\n            <Container:Item Item:Semantic='GainMap' Item:Mime='image/jpeg' Item:Length='"
UltraHdrPrimaryXmpLit1 ==
    <<60, 63, 120, 112, 97, 99, 107, 101, 116, 32, 98, 101, 103, 105, 110, 61, 39, 239, 187, 191, 39,
      32, 105, 100, 61, 39, 87, 53, 77, 48, 77, 112, 67, 101, 104, 105, 72, 122, 114, 101, 83, 122,
      78, 84, 99, 122, 107, 99, 57, 100, 39, 63, 62, 10, 60, 120, 58, 120, 109, 112, 109, 101, 116,
      97, 32, 120, 109, 108, 110, 115, 58, 120, 61, 39, 97, 100, 111, 98, 101, 58, 110, 115, 58, 109,
      101, 116, 97, 47, 39, 62, 10, 32, 32, 60, 114, 100, 102, 58, 82, 68, 70, 32, 120, 109, 108, 110,
      115, 58, 114, 100, 102, 61, 39, 104, 116, 116, 112, 58, 47, 47, 119, 119, 119, 46, 119, 51, 46,
      111, 114, 103, 47, 49, 57, 57, 57, 47, 48, 50, 47, 50, 50, 45, 114, 100, 102, 45, 115, 121, 110,
      116, 97, 120, 45, 110, 115, 35, 39, 62, 10, 32, 32, 32, 32, 60, 114, 100, 102, 58, 68, 101, 115,
      99, 114, 105, 112, 116, 105, 111, 110, 32, 114, 100, 102, 58, 97, 98, 111, 117, 116, 61, 39, 39,
      10, 32, 32, 32, 32, 32, 32, 120, 109, 108, 110, 115, 58, 104, 100, 114, 103, 109, 61, 39, 104,
      116, 116, 112, 58, 47, 47, 110, 115, 46, 97, 100, 111, 98, 101, 46, 99, 111, 109, 47, 104, 100,
      114, 45, 103, 97, 105, 110, 45, 109, 97, 112, 47, 49, 46, 48, 47, 39, 10, 32, 32, 32, 32, 32,
      32, 120, 109, 108, 110, 115, 58, 67, 111, 110, 116, 97, 105, 110, 101, 114, 61, 39, 104, 116,
      116, 112, 58, 47, 47, 110, 115, 46, 103, 111, 111, 103, 108, 101, 46, 99, 111, 109, 47, 112,
      104, 111, 116, 111, 115, 47, 49, 46, 48, 47, 99, 111, 110, 116, 97, 105, 110, 101, 114, 47, 39,
      10, 32, 32, 32, 32, 32, 32, 120, 109, 108, 110, 115, 58, 73, 116, 101, 109, 61, 39, 104, 116,
      116, 112, 58, 47, 47, 110, 115, 46, 103, 111, 111, 103, 108, 101, 46, 99, 111, 109, 47, 112,
      104, 111, 116, 111, 115, 47, 49, 46, 48, 47, 99, 111, 110, 116, 97, 105, 110, 101, 114, 47, 105,
      116, 101, 109, 47, 39, 10, 32, 32, 32, 32, 32, 32, 104, 100, 114, 103, 109, 58, 86, 101, 114,
      115, 105, 111, 110, 61, 39, 49, 46, 48, 39, 62, 10, 32, 32, 32, 32, 32, 32, 60, 67, 111, 110,
      116, 97, 105, 110, 101, 114, 58, 68, 105, 114, 101, 99, 116, 111, 114, 121, 62, 10, 32, 32, 32,
      32, 32, 32, 32, 32, 60, 114, 100, 102, 58, 83, 101, 113, 62, 10, 32, 32, 32, 32, 32, 32, 32, 32,
      32, 32, 60, 114, 100, 102, 58, 108, 105, 32, 114, 100, 102, 58, 112, 97, 114, 115, 101, 84, 121,
      112, 101, 61, 39, 82, 101, 115, 111, 117, 114, 99, 101, 39, 62, 10, 32, 32, 32, 32, 32, 32, 32,
      32, 32, 32, 32, 32, 60, 67, 111, 110, 116, 97, 105, 110, 101, 114, 58, 73, 116, 101, 109, 32,
      73, 116, 101, 109, 58, 83, 101, 109, 97, 110, 116, 105, 99, 61, 39, 80, 114, 105, 109, 97, 114,
      121, 39, 32, 73, 116, 101, 109, 58, 77, 105, 109, 101, 61, 39, 105, 109, 97, 103, 101, 47, 106,
      112, 101, 103, 39, 47, 62, 10, 32, 32, 32, 32, 32, 32, 32, 32, 32, 32, 60, 47, 114, 100, 102,
      58, 108, 105, 62, 10, 32, 32, 32, 32, 32, 32, 32, 32, 32, 32, 60, 114, 100, 102, 58, 108, 105,
      32, 114, 100, 102, 58, 112, 97, 114, 115, 101, 84, 121, 112, 101, 61, 39, 82, 101, 115, 111,
      117, 114, 99, 101, 39, 62, 10, 32, 32, 32, 32, 32, 32, 32, 32, 32, 32, 32, 32, 60, 67, 111, 110,
      116, 97, 105, 110, 101, 114, 58, 73, 116, 101, 109, 32, 73, 116, 101, 109, 58, 83, 101, 109, 97,
      110, 116, 105, 99, 61, 39, 71, 97, 105, 110, 77, 97, 112, 39, 32, 73, 116, 101, 109, 58, 77,
      105, 109, 101, 61, 39, 105, 109, 97, 103, 101, 47, 106, 112, 101, 103, 39, 32, 73, 116, 101,
      109, 58, 76, 101, 110, 103, 116, 104, 61, 39>>

\* "'/>\n          </rdf:li>\n        </rdf:Seq>\n      </Container:Directory>\n    </rdf:Description>\n  </rdf:RDF>\n</x:xmpmeta>\n<?xpacket end='w'?>"
UltraHdrPrimaryXmpLit2 ==
    <<39, 47, 62, 10, 32, 32, 32, 32, 32, 32, 32, 32, 32, 32, 60, 47, 114, 100, 102, 58, 108, 105, 62,
      10, 32, 32, 32, 32, 32, 32, 32, 32, 60, 47, 114, 100, 102, 58, 83, 101, 113, 62, 10, 32, 32, 32,
      32, 32, 32, 60, 47, 67, 111, 110, 116, 97, 105, 110, 101, 114, 58, 68, 105, 114, 101, 99, 116,
      111, 114, 121, 62, 10, 32, 32, 32, 32, 60, 47, 114, 100, 102, 58, 68, 101, 115, 99, 114, 105,
      112, 116, 105, 111, 110, 62, 10, 32, 32, 60, 47, 114, 100, 102, 58, 82, 68, 70, 62, 10, 60, 47,
      120, 58, 120, 109, 112, 109, 101, 116, 97, 62, 10, 60, 63, 120, 112, 97, 99, 107, 101, 116, 32,
      101, 110, 100, 61, 39, 119, 39, 63, 62>>

\* "<?xpacket begin='<BOM>' id='W5M0MpCehiHzreSzNTczkc9d'?>\n<x:xmpmeta xmlns:x='adobe:ns:meta/'>\n  <rdf:RDF xmlns:rdf='http://www.w3.org/1999/02/22-rdf-syntax-ns#'>\n    <rdf:Description rdf:about=''\n      xmlns:hdrgm='http://ns.adobe.com/hdr-gain-map/1.0/'\n      hdrgm:Version='1.0'\n      hdrgm:GainMapMin='0.0'\n      hdrgm:GainMapMax='"
UltraHdrGainmapXmpLit1 ==
    <<60, 63, 120, 112, 97, 99, 107, 101, 116, 32, 98, 101, 103, 105, 110, 61, 39, 239, 187, 191, 39,
      32, 105, 100, 61, 39, 87, 53, 77, 48, 77, 112, 67, 101, 104, 105, 72, 122, 114, 101, 83, 122,
      78, 84, 99, 122, 107, 99, 57, 100, 39, 63, 62, 10, 60, 120, 58, 120, 109, 112, 109, 101, 116,
      97, 32, 120, 109, 108, 110, 115, 58, 120, 61, 39, 97, 100, 111, 98, 101, 58, 110, 115, 58, 109,
      101, 116, 97, 47, 39, 62, 10, 32, 32, 60, 114, 100, 102, 58, 82, 68, 70, 32, 120, 109, 108, 110,
      115, 58, 114, 100, 102, 61, 39, 104, 116, 116, 112, 58, 47, 47, 119, 119, 119, 46, 119, 51, 46,
      111, 114, 103, 47, 49, 57, 57, 57, 47, 48, 50, 47, 50, 50, 45, 114, 100, 102, 45, 115, 121, 110,
      116, 97, 120, 45, 110, 115, 35, 39, 62, 10, 32, 32, 32, 32, 60, 114, 100, 102, 58, 68, 101, 115,
      99, 114, 105, 112, 116, 105, 111, 110, 32, 114, 100, 102, 58, 97, 98, 111, 117, 116, 61, 39, 39,
      10, 32, 32, 32, 32, 32, 32, 120, 109, 108, 110, 115, 58, 104, 100, 114, 103, 109, 61, 39, 104,
      116, 116, 112, 58, 47, 47, 110, 115, 46, 97, 100, 111, 98, 101, 46, 99, 111, 109, 47, 104, 100,
      114, 45, 103, 97, 105, 110, 45, 109, 97, 112, 47, 49, 46, 48, 47, 39, 10, 32, 32, 32, 32, 32,
      32, 104, 100, 114, 103, 109, 58, 86, 101, 114, 115, 105, 111, 110, 61, 39, 49, 46, 48, 39, 10,
      32, 32, 32, 32, 32, 32, 104, 100, 114, 103, 109, 58, 71, 97, 105, 110, 77, 97, 112, 77, 105,
      110, 61, 39, 48, 46, 48, 39, 10, 32, 32, 32, 32, 32, 32, 104, 100, 114, 103, 109, 58, 71, 97,
      105, 110, 77, 97, 112, 77, 97, 120, 61, 39>>

\* "'\n      hdrgm:Gamma='1.0'\n      hdrgm:OffsetSDR='0.015625'\n      hdrgm:OffsetHDR='0.015625'\n      hdrgm:HDRCapacityMin='0.0'\n      hdrgm:HDRCapacityMax='"
UltraHdrGainmapXmpLit2 ==
    <<39, 10, 32, 32, 32, 32, 32, 32, 104, 100, 114, 103, 109, 58, 71, 97, 109, 109, 97, 61, 39, 49,
      46, 48, 39, 10, 32, 32, 32, 32, 32, 32, 104, 100, 114, 103, 109, 58, 79, 102, 102, 115, 101,
      116, 83, 68, 82, 61, 39, 48, 46, 48, 49, 53, 54, 50, 53, 39, 10, 32, 32, 32, 32, 32, 32, 104,
      100, 114, 103, 109, 58, 79, 102, 102, 115, 101, 116, 72, 68, 82, 61, 39, 48, 46, 48, 49, 53, 54,
      50, 53, 39, 10, 32, 32, 32, 32, 32, 32, 104, 100, 114, 103, 109, 58, 72, 68, 82, 67, 97, 112,
      97, 99, 105, 116, 121, 77, 105, 110, 61, 39, 48, 46, 48, 39, 10, 32, 32, 32, 32, 32, 32, 104,
      100, 114, 103, 109, 58, 72, 68, 82, 67, 97, 112, 97, 99, 105, 116, 121, 77, 97, 120, 61, 39>>

\* "'\n      hdrgm:BaseRenditionIsHDR='False'\n    />\n  </rdf:RDF>\n</x:xmpmeta>\n<?xpacket end='w'?>"
UltraHdrGainmapXmpLit3 ==
    <<39, 10, 32, 32, 32, 32, 32, 32, 104, 100, 114, 103, 109, 58, 66, 97, 115, 101, 82, 101, 110,
      100, 105, 116, 105, 111, 110, 73, 115, 72, 68, 82, 61, 39, 70, 97, 108, 115, 101, 39, 10, 32,
      32, 32, 32, 47, 62, 10, 32, 32, 60, 47, 114, 100, 102, 58, 82, 68, 70, 62, 10, 60, 47, 120, 58,
      120, 109, 112, 109, 101, 116, 97, 62, 10, 60, 63, 120, 112, 97, 99, 107, 101, 116, 32, 101, 110,
      100, 61, 39, 119, 39, 63, 62>>

_build_apple_primary_xmp(peak) ==
    ApplePrimaryXmpLit1 \o FormatGainMapMax(peak) \o ApplePrimaryXmpLit2

_build_apple_gainmap_xmp(peak) ==
    AppleGainmapXmpLit1 \o FormatGainMapMax(peak) \o AppleGainmapXmpLit2

_build_ultrahdr_primary_xmp(peak, gainmap_size) ==
    UltraHdrPrimaryXmpLit1 \o FormatInt(gainmap_size) \o UltraHdrPrimaryXmpLit2

_build_ultrahdr_gainmap_xmp(peak) ==
    UltraHdrGainmapXmpLit1 \o FormatGainMapMax(peak) \o UltraHdrGainmapXmpLit2
        \o FormatGainMapMax(peak) \o UltraHdrGainmapXmpLit3

(***************************************************************************)
(* MakerApple EXIF.                                                        *)
(***************************************************************************)
\* struct.pack(">f", 1.01) and struct.pack(">f", 0.009986)
tag_33 == <<63, 129, 71, 174>>

tag_48 == <<60, 35, 156, 82>>

_build_makerapple_ifd(peak) ==
    PackH(2)
        \o PackH(33) \o PackH(11) \o PackI(1) \o tag_33
        \o PackH(48) \o PackH(11) \o PackI(1) \o tag_48
        \o PackI(0)

\* A variant of the step that reads a length field after RSTn markers too.
walk_step_rst_with_length(d, pos) ==
    LET stop == [done |-> TRUE, err |-> "", exif_pos |-> -1, pos |-> pos] IN
    IF ~(pos < Len(d) - 1) THEN stop
    ELSE IF d[pos + 1] # 255 THEN stop
    ELSE IF d[pos + 2] = 217 \/ d[pos + 2] = 218 THEN stop
    ELSE IF Len(Slice(d, pos + 2, pos + 4)) # 2
         THEN [done |-> TRUE, err |-> "struct.error", exif_pos |-> -1,
               pos |-> pos]
         ELSE IF d[pos + 2] = 225 /\ Slice(d, pos + 4, pos + 10) = ExifSig
              THEN [done |-> TRUE, err |-> "", exif_pos |-> pos, pos |-> pos]
              ELSE [done |-> FALSE, err |-> "", exif_pos |-> -1,
                    pos |-> pos + 2 + UnpackH(Slice(d, pos + 2, pos + 4))]

\* One evaluation of the loop condition and body of the marker walk of
\* _inject_makerapple_exif at 0-based position pos: done when the loop is
\* left (condition false, break, or struct.error from a length field cut by
\* the end of the data), else the next position.  exif_pos = -1 stands for
\* None.
walk_step(d, pos) ==
    LET stop == [done |-> TRUE, err |-> "", exif_pos |-> -1, pos |-> pos] IN
    IF ~(pos < Len(d) - 1) THEN stop
    ELSE IF d[pos + 1] # 255 THEN stop
    ELSE LET m == d[pos + 2] IN
         IF m = 217 \/ m = 218 THEN stop
         ELSE IF m < 208 \/ m > 215
              THEN IF Len(Slice(d, pos + 2, pos + 4)) # 2
                   THEN [done |-> TRUE, err |-> "struct.error",
                         exif_pos |-> -1, pos |-> pos]
                   ELSE LET length == UnpackH(Slice(d, pos + 2, pos + 4)) IN
                        IF m = 225 /\ Slice(d, pos + 4, pos + 10) = ExifSig
                        THEN [done |-> TRUE, err |-> "", exif_pos |-> pos,
                              pos |-> pos]
                        ELSE [done |-> FALSE, err |-> "", exif_pos |-> -1,
                              pos |-> pos + 2 + length]
              ELSE [done |-> FALSE, err |-> "", exif_pos |-> -1,
                    pos |-> pos + 2]

\* The marker walk of _inject_makerapple_exif from 0-based position pos.
RECURSIVE MarkerWalk(_, _)
MarkerWalk(d, pos) ==
    LET s == walk_step(d, pos) IN
    IF s.done THEN [err |-> s.err, exif_pos |-> s.exif_pos, pos |-> s.pos]
    ELSE MarkerWalk(d, s.pos)

\* makerapple_offset = 8 + 2 + 12 + 4
makerapple_offset == 26

\* The minimal EXIF APP1 segment built when the walk finds no Exif APP1.
exif_app1_segment(peak) ==
    LET makerapple_ifd == _build_makerapple_ifd(peak)
        tiff_data ==
            ByteOrderMM \o <<0, 42>> \o PackI(8)
                \o PackH(1)
                \o PackH(37500) \o PackH(7) \o PackI(Len(makerapple_ifd))
                \o PackI(makerapple_offset)
                \o PackI(0)
                \o <<65, 112, 112, 108, 101, 0, 0, 0>>
                \o makerapple_ifd
        exif_payload == ExifSig \o tiff_data
    IN  <<255, 225>> \o PackH(Len(exif_payload) + 2) \o exif_payload

\* A variant that walks the markers without the assertion on the first two bytes.
_inject_makerapple_exif_unasserted(jpeg_data, peak) ==
    LET walk == MarkerWalk(jpeg_data, 2) IN
    IF walk.err # "" THEN Raise(walk.err)
    ELSE IF walk.exif_pos = -1
         THEN Return(Slice(jpeg_data, 0, 2) \o exif_app1_segment(peak)
                         \o SliceFrom(jpeg_data, 2))
         ELSE Return(jpeg_data)

_inject_makerapple_exif(jpeg_data, peak) ==
    IF Slice(jpeg_data, 0, 2) # SOI THEN Raise("AssertionError")
    ELSE LET walk == MarkerWalk(jpeg_data, 2) IN
         IF walk.err # "" THEN Raise(walk.err)
         ELSE IF walk.exif_pos = -1
              THEN Return(Slice(jpeg_data, 0, 2) \o exif_app1_segment(peak)
                              \o SliceFrom(jpeg_data, 2))
              ELSE Return(jpeg_data)

(***************************************************************************)
(* JPEG manipulation helpers.                                              *)
(***************************************************************************)
\* A variant whose APP1 length field leaves out the two length bytes.
_inject_xmp_length_of_payload(jpeg_data, xmp_bytes) ==
    IF Slice(jpeg_data, 0, 2) # SOI THEN Raise("AssertionError")
    ELSE LET payload == xmp_header \o xmp_bytes IN
         Return(Slice(jpeg_data, 0, 2)
                    \o <<255, 225>> \o PackH(Len(payload)) \o payload
                    \o SliceFrom(jpeg_data, 2))

_inject_xmp_into_jpeg(jpeg_data, xmp_bytes) ==
    IF Slice(jpeg_data, 0, 2) # SOI THEN Raise("AssertionError")
    ELSE LET payload == xmp_header \o xmp_bytes IN
         IF Len(payload) + 2 > 65535 THEN Raise("struct.error")
         ELSE Return(Slice(jpeg_data, 0, 2)
                         \o <<255, 225>> \o PackH(Len(payload) + 2) \o payload
                         \o SliceFrom(jpeg_data, 2))

(***************************************************************************)
(* MPF assembly.                                                           *)
(***************************************************************************)
num_ifd_entries == 3

\* mp_entry_data_offset = 8 + 2 + num_ifd_entries * 12 + 4
mp_entry_data_offset == 8 + 2 + num_ifd_entries * 12 + 4

\* The APP2 payload up to and including the next-IFD offset.
mpf_ifd ==
    MpfSig
        \o ByteOrderMM \o <<0, 42>> \o PackI(8)
        \o PackH(num_ifd_entries)
        \o PackH(45056) \o PackH(7) \o PackI(4) \o <<48, 49, 48, 48>>
        \o PackH(45057) \o PackH(4) \o PackI(1) \o PackI(2)
        \o PackH(45058) \o PackH(7) \o PackI(32) \o PackI(mp_entry_data_offset)
        \o PackI(0)

\* mpf.tell() after the attribute of MP entry 1 (0x20030000).
pos_entry1_size == Len(mpf_ifd \o PackI(537067520))

\* mpf.tell() after attribute and size of MP entry 2.
pos_entry2_offset == pos_entry1_size + 4 + 4 + 4 + 4 + 4

\* The payload with the placeholders: entry 1 size 0, entry 2 offset 0.
mpf_placeholder(gm) ==
    mpf_ifd
        \o PackI(537067520) \o PackI(0) \o PackI(0) \o PackH(0) \o PackH(0)
        \o PackI(0) \o PackI(Len(gm)) \o PackI(0) \o PackH(0) \o PackH(0)

\* A variant whose length field counts the payload only.
mpf_app2_length_of_payload(mpf_bytes) ==
    <<255, 226>> \o PackH(Len(mpf_bytes)) \o mpf_bytes

\* b"\xff\xe2" + struct.pack(">H", len(mpf_bytes) + 2) + bytes(mpf_bytes)
mpf_app2_of(mpf_bytes) == <<255, 226>> \o PackH(Len(mpf_bytes) + 2) \o mpf_bytes

\* A variant of _build_mpf_jpeg's extraction that never keeps an EXIF APP1.
exif_app1_dropped(sdr, sdr_with_exif) == <<>>

\* The EXIF APP1 that _build_mpf_jpeg extracts from what
\* _inject_makerapple_exif returned (sdr_with_exif) for sdr.
exif_app1_of(sdr, sdr_with_exif) ==
    LET e == IF sdr_with_exif # sdr THEN SliceFrom(sdr_with_exif, 2) ELSE <<>> IN
    IF e # <<>> /\ Slice(e, 0, 2) = <<255, 225>>
    THEN Slice(e, 0, 2 + UnpackH(Slice(e, 2, 4)))
    ELSE <<>>

primary_total_of(exif_app1, xmp_app1, mpf_app2, rest_of_primary) ==
    Len(SOI) + Len(exif_app1) + Len(xmp_app1) + Len(mpf_app2) + Len(rest_of_primary)

\* A variant in which the EXIF APP1 is left out of the position of the byte-order mark.
bo_pos_without_exif(exif_app1, xmp_app1) == Len(SOI) + Len(xmp_app1) + 2 + 2 + 4

bo_pos_of(exif_app1, xmp_app1) ==
    Len(SOI) + Len(exif_app1) + Len(xmp_app1) + 2 + 2 + 4

secondary_offset_of(primary_total, bo_pos) == primary_total - bo_pos

\* A variant in which the APP2 segment is assembled from the unpatched payload.
mpf_left_unpatched(mpf_bytes, primary_total, secondary_offset) == mpf_bytes

\* The placeholders patched: struct.pack_into at pos_entry1_size and
\* pos_entry2_offset.
mpf_patched(mpf_bytes, primary_total, secondary_offset) ==
    PackIntoI(PackIntoI(mpf_bytes, pos_entry1_size, primary_total),
              pos_entry2_offset, secondary_offset)

_build_mpf_jpeg(sdr, gm, xmp, peak) ==
    IF Slice(sdr, 0, 2) # SOI \/ Slice(gm, 0, 2) # SOI THEN Raise("AssertionError")
    ELSE LET injected == _inject_makerapple_exif(sdr, peak) IN
         IF injected.err # "" THEN Raise(injected.err)
         ELSE LET rest_of_primary == SliceFrom(sdr, 2)
                  exif_app1 == exif_app1_of(sdr, injected.bytes)
                  xmp_payload == xmp_header \o xmp
              IN  IF Len(xmp_payload) + 2 > 65535 THEN Raise("struct.error")
                  ELSE LET xmp_app1 ==
                               <<255, 225>> \o PackH(Len(xmp_payload) + 2)
                                   \o xmp_payload
                           mpf_bytes == mpf_placeholder(gm)
                           primary_total ==
                               primary_total_of(exif_app1, xmp_app1,
                                   mpf_app2_of(mpf_bytes), rest_of_primary)
                           bo_pos == bo_pos_of(exif_app1, xmp_app1)
                           secondary_offset ==
                               secondary_offset_of(primary_total, bo_pos)
                           mpf_app2 ==
                               mpf_app2_of(mpf_patched(mpf_bytes, primary_total,
                                                       secondary_offset))
                       IN  Return(SOI \o exif_app1 \o xmp_app1 \o mpf_app2
                                      \o rest_of_primary \o gm)

(***************************************************************************)
(* Images and the baseline JPEG encoder (Pillow), an external              *)
(* collaborator: an image is its size and mode, an encoded JPEG is one of  *)
(* the byte strings below.                                                 *)
(***************************************************************************)
Image(size, mode) == [size |-> size, mode |-> mode]

_ensure_rgb(img) == IF img.mode # "RGB" THEN Image(img.size, "RGB") ELSE img

\* sdr_img.convert("L"): same size, mode L.
_generate_gain_map(img, peak) == Image(img.size, "L")

\* APP0 "JFIF", APP2 "ICC_PROFILE"-like, and an entropy-coded scan of k bytes.
SegApp0 == <<255, 224>> \o PackH(6) \o <<74, 70, 73, 70>>

SegIcc == <<255, 226>> \o PackH(6) \o <<73, 67, 67, 95>>

SegExif == <<255, 225>> \o PackH(10) \o ExifSig \o ByteOrderMM

SegApp1Other == <<255, 225>> \o PackH(6) \o <<104, 116, 116, 112>>

SegRst == <<255, 208>>

Scan(k) == <<255, 218>> \o PackH(2) \o [i \in 1..k |-> 17]

\* What img.save(buf, format="JPEG", ...) may produce: SOI, JFIF APP0, the ICC
\* APP2 when an icc_profile is passed, the scan, EOI.  Pillow writes an Exif
\* APP1 only when asked to (exif=...), which the callers never do.
JpegEncode(img, icc) ==
    { SOI \o SegApp0 \o (IF icc THEN SegIcc ELSE <<>>) \o Scan(k) \o EOI :
        k \in 0..MaxScan }

\* Byte strings handed directly to the container helpers: well-formed JPEGs
\* with and without an Exif APP1, truncated ones, and non-JPEG data.
JpegPrefixes ==
    { <<>>, SegApp0, SegApp0 \o SegIcc, SegExif, SegApp0 \o SegExif,
      SegApp1Other, SegApp1Other \o SegExif, SegRst \o SegExif }

JpegInputs ==
    { SOI \o p \o Scan(k) \o EOI : p \in JpegPrefixes, k \in 0..MaxScan }
        \cup { SOI \o EOI,
               SOI \o Scan(0) \o SegExif \o EOI,
               SOI \o <<255, 224>>,
               SOI \o <<255, 224, 0>>,
               SOI \o <<0>> \o SegExif,
               SOI \o <<255, 224, 0, 0>> \o SegExif \o EOI,
               SOI \o SegRst \o <<255, 224, 0, 2>> \o SegRst \o Scan(0) \o EOI,
               <<>>, <<255>>, EOI, <<137, 80, 78, 71>> }

XmpInputs == { <<>>, <<60, 120, 47, 62>> }

\* The shortest xmp_bytes for which len(payload) + 2 no longer fits the
\* unsigned 16-bit length field of struct.pack(">H", ...).
LargeXmp == [i \in 1..(65535 - 2 - Len(xmp_header) + 1) |-> 32]

Sizes == { <<4, 4>>, <<8, 4>>, <<16, 8>> }

NoFile == [exists |-> FALSE, bytes |-> <<>>]

\* with open(output_path, "wb") as f: f.write(data)
WriteFile(data) == [exists |-> TRUE, bytes |-> data]

(***************************************************************************)
(* Container operations as actions.  The functions are pure: a behaviour   *)
(* is one call, on arguments drawn from the sets above.                    *)
(***************************************************************************)
\* _notify_progress was not called.
NoCall ==
    [made |-> FALSE, batch_id |-> 0,
     status |-> [status |-> "running", total |-> 0, completed |-> 0,
                 failed |-> 0, current_apl |-> 0],
     clients |-> {}, unschedulable |-> {}, scheduled |-> {},
     clients_after |-> {}, err |-> ""]

\* No batch was created and no WebSocket client is connected.
BatchIdle ==
    /\ impl = "batch_service"
    /\ batch_jobs = {}
    /\ batch_cancel = <<>>
    /\ created_times = <<>>
    /\ tasks = <<>>
    /\ notified = <<>>
    /\ attempted = <<>>
    /\ running_task = 0
    /\ now = 0
    /\ _ws_clients = {}
    /\ progress_call = NoCall

\* Threads that run export_single, and so get_icc_profile, at the same time
\* (asyncio.to_thread).
MaxThreads == 2

Threads == 1..MaxThreads

\* No thread has entered get_icc_profile.
IdleThreads ==
    [t \in Threads |-> [pc |-> "idle", color_space |-> "none", data |-> <<>>,
                        source |-> "none", returned |-> <<>>]]

\* get_icc_profile was not called: nothing cached, no bundled files.
IccIdle ==
    /\ icc_cache = <<>>
    /\ icc_files = {}
    /\ icc_threads = IdleThreads
    /\ icc_result = [color_space |-> "none", err |-> "", bytes |-> <<>>,
                     source |-> "none"]

\* No export was requested.
ExportIdle ==
    /\ export_fn = "none"
    /\ export_args = <<>>
    /\ export_out = <<>>

\* No container operation was invoked.
ContainerIdle ==
    /\ fn = "none"
    /\ sdr_size = <<0, 0>>
    /\ gain_map_size = <<0, 0>>
    /\ sdr_jpeg = <<>>
    /\ gainmap_jpeg = <<>>
    /\ primary_xmp = <<>>
    /\ peak_nits = 0
    /\ result = Return(<<>>)
    /\ output_file = NoFile

InitContainer == ContainerIdle /\ BatchIdle /\ IccIdle /\ ExportIdle

\* A direct call _build_mpf_jpeg(s, g, x, p).
Call_build_mpf_jpeg ==
    \E s \in JpegInputs, g \in JpegInputs, x \in XmpInputs, p \in Peaks :
        /\ fn = "none"
        /\ fn' = "_build_mpf_jpeg"
        /\ sdr_jpeg' = s
        /\ gainmap_jpeg' = g
        /\ primary_xmp' = x
        /\ peak_nits' = p
        /\ result' = _build_mpf_jpeg(s, g, x, p)
        /\ sdr_size' = <<0, 0>>
        /\ gain_map_size' = <<0, 0>>
        /\ output_file' = NoFile
        /\ UNCHANGED <<batchVars, iccVars, exportVars>>

\* create_apple_gainmap_jpeg(sdr_img, peak_nits, output_path, icc_profile)
create_apple_gainmap_jpeg ==
    \E size \in Sizes, mode \in {"RGB", "RGBA"}, p \in Peaks, icc \in BOOLEAN :
        LET sdr_img == _ensure_rgb(Image(size, mode))
            gain_map == _generate_gain_map(sdr_img, p)
        IN  \E enc_sdr \in JpegEncode(sdr_img, icc),
               enc_gm \in JpegEncode(gain_map, FALSE) :
                LET gm_xmp == _build_apple_gainmap_xmp(p)
                    gm_jpeg == _inject_xmp_into_jpeg(enc_gm, gm_xmp)
                    pxmp == _build_apple_primary_xmp(p)
                    mpf_jpeg == _build_mpf_jpeg(enc_sdr, gm_jpeg.bytes, pxmp, p)
                IN  /\ fn = "none"
                    /\ fn' = "create_apple_gainmap_jpeg"
                    /\ sdr_size' = sdr_img.size
                    /\ gain_map_size' = gain_map.size
                    /\ sdr_jpeg' = enc_sdr
                    /\ gainmap_jpeg' = gm_jpeg.bytes
                    /\ primary_xmp' = pxmp
                    /\ peak_nits' = p
                    /\ result' = mpf_jpeg
                    /\ output_file' = IF mpf_jpeg.err = ""
                                      THEN WriteFile(mpf_jpeg.bytes) ELSE NoFile
                    /\ UNCHANGED <<batchVars, iccVars, exportVars>>

\* A variant that passes the size of the gain-map JPEG before its XMP APP1 is injected.
gainmap_size_before_inject(enc_gm, gm_jpeg) == Len(enc_gm)

\* len(gm_jpeg) as passed to _build_ultrahdr_primary_xmp: gm_jpeg was rebound
\* to the blob with its XMP APP1 injected (enc_gm is the encoder's output).
gainmap_size_arg(enc_gm, gm_jpeg) == Len(gm_jpeg)

\* create_ultra_hdr_jpeg(sdr_img, peak_nits, output_path, icc_profile)
create_ultra_hdr_jpeg ==
    \E size \in Sizes, mode \in {"RGB", "RGBA"}, p \in Peaks, icc \in BOOLEAN :
        LET sdr_img == _ensure_rgb(Image(size, mode))
            gain_map == _generate_gain_map(sdr_img, p)
        IN  \E enc_sdr \in JpegEncode(sdr_img, icc),
               enc_gm \in JpegEncode(gain_map, FALSE) :
                LET gm_xmp == _build_ultrahdr_gainmap_xmp(p)
                    gm_jpeg == _inject_xmp_into_jpeg(enc_gm, gm_xmp)
                    pxmp == _build_ultrahdr_primary_xmp(
                                p, gainmap_size_arg(enc_gm, gm_jpeg.bytes))
                    mpf_jpeg == _build_mpf_jpeg(enc_sdr, gm_jpeg.bytes, pxmp, p)
                IN  /\ fn = "none"
                    /\ fn' = "create_ultra_hdr_jpeg"
                    /\ sdr_size' = sdr_img.size
                    /\ gain_map_size' = gain_map.size
                    /\ sdr_jpeg' = enc_sdr
                    /\ gainmap_jpeg' = gm_jpeg.bytes
                    /\ primary_xmp' = pxmp
                    /\ peak_nits' = p
                    /\ result' = mpf_jpeg
                    /\ output_file' = IF mpf_jpeg.err = ""
                                      THEN WriteFile(mpf_jpeg.bytes) ELSE NoFile
                    /\ UNCHANGED <<batchVars, iccVars, exportVars>>

\* A direct call _inject_xmp_into_jpeg(j, x).
Call_inject_xmp_into_jpeg ==
    \E j \in JpegInputs, x \in XmpInputs \cup {LargeXmp} :
        /\ fn = "none"
        /\ fn' = "_inject_xmp_into_jpeg"
        /\ sdr_jpeg' = j
        /\ primary_xmp' = x
        /\ result' = _inject_xmp_into_jpeg(j, x)
        /\ output_file' = NoFile
        /\ UNCHANGED <<gainmap_jpeg, peak_nits, sdr_size, gain_map_size>>
        /\ UNCHANGED <<batchVars, iccVars, exportVars>>

\* A direct call _inject_makerapple_exif(j, p).
Call_inject_makerapple_exif ==
    \E j \in JpegInputs, p \in Peaks :
        /\ fn = "none"
        /\ fn' = "_inject_makerapple_exif"
        /\ sdr_jpeg' = j
        /\ peak_nits' = p
        /\ result' = _inject_makerapple_exif(j, p)
        /\ output_file' = NoFile
        /\ UNCHANGED <<gainmap_jpeg, primary_xmp, sdr_size, gain_map_size>>
        /\ UNCHANGED <<batchVars, iccVars, exportVars>>

NextContainer ==
    \/ Call_build_mpf_jpeg
    \/ Call_inject_xmp_into_jpeg
    \/ Call_inject_makerapple_exif
    \/ create_apple_gainmap_jpeg
    \/ create_ultra_hdr_jpeg

SpecContainer == InitContainer /\ [][NextContainer]_vars


(***************************************************************************)
(* Reading an emitted file back: the reader's side of the MPF contract.    *)
(***************************************************************************)
\* 0-based position of the marker of the first APP2 segment whose payload
\* starts with "MPF\0", walking the segments from pos; -1 if there is none
\* before SOS, EOI or the end.
RECURSIVE FindMpfApp2(_, _)
FindMpfApp2(f, pos) ==
    IF pos + 4 > Len(f) \/ f[pos + 1] # 255 \/ f[pos + 2] \in {217, 218} THEN -1
    ELSE IF f[pos + 2] = 226 /\ Slice(f, pos + 4, pos + 8) = MpfSig THEN pos
    ELSE FindMpfApp2(f, pos + 2 + UnpackH(Slice(f, pos + 2, pos + 4)))

\* Position of the byte after "MPF\0": where the byte-order mark must be.
BoPosInFile(f) == FindMpfApp2(f, 2) + 8

\* Position of the MP-entry block, from the value of IFD entry 0xB002.
RECURSIVE MpEntryTagValue(_, _, _)
MpEntryTagValue(f, entry, left) ==
    IF left = 0 THEN -1
    ELSE IF UnpackH(Slice(f, entry, entry + 2)) = 45058
         THEN UnpackI(Slice(f, entry + 8, entry + 12))
         ELSE MpEntryTagValue(f, entry + 12, left - 1)

MpEntriesInFile(f) ==
    LET bo == BoPosInFile(f)
        ifd == bo + UnpackI(Slice(f, bo + 4, bo + 8))
    IN  bo + MpEntryTagValue(f, ifd + 2, UnpackH(Slice(f, ifd, ifd + 2)))

\* MP entry k (1 or 2) of the file: attribute, size, offset.
MpEntry(f, k) ==
    LET e == MpEntriesInFile(f) + 16 * (k - 1) IN
    [attribute |-> UnpackI(Slice(f, e, e + 4)),
     size |-> UnpackI(Slice(f, e + 4, e + 8)),
     offset |-> UnpackI(Slice(f, e + 8, e + 12))]

\* The file starts, after SOI, with an APP1 segment carrying "Exif\0\0".
HasExifApp1(f) == Slice(f, 2, 4) = <<255, 225>> /\ Slice(f, 6, 12) = ExifSig

\* Length of that segment, marker included (0 when there is none).
ExifApp1Len(f) == IF HasExifApp1(f) THEN 2 + UnpackH(Slice(f, 4, 6)) ELSE 0

\* Length of the APP1 segment at pos if it is an XMP APP1, else 0.
XmpApp1Len(f, pos) ==
    IF Slice(f, pos, pos + 2) = <<255, 225>>
           /\ Slice(f, pos + 4, pos + 4 + Len(xmp_header)) = xmp_header
    THEN 2 + UnpackH(Slice(f, pos + 2, pos + 4)) ELSE 0

\* A call of _build_mpf_jpeg, direct or from a pipeline, that emitted a file.
Emitted ==
    /\ fn \in {"_build_mpf_jpeg", "create_apple_gainmap_jpeg", "create_ultra_hdr_jpeg"}
    /\ result.err = ""

\* C1: in every emitted file the byte-order mark "MM" of the MPF payload is at
\* bo_pos = 2 + len(exif_app1) + len(xmp_app1) + 2 + 2 + 4, and the two bytes
\* at bo_pos + (MP entry 2 offset) are FF D8, the first two bytes of the copy
\* of gainmap_jpeg that ends the file.
C1_SecondaryOffsetLandsOnSoi ==
    Emitted =>
        LET f == result.bytes
            bo == BoPosInFile(f)
            at == bo + MpEntry(f, 2).offset
        IN  /\ Slice(f, bo, bo + 2) = ByteOrderMM
            /\ bo = 2 + ExifApp1Len(f) + XmpApp1Len(f, 2 + ExifApp1Len(f)) + 2 + 2 + 4
            /\ Slice(f, at, at + 2) = SOI
            /\ at = Len(f) - Len(gainmap_jpeg)
            /\ SliceFrom(f, at) = gainmap_jpeg

\* C1 witness: a file emitted for an SDR JPEG that already carries an Exif APP1,
\* so the MakerApple segment was skipped.
C1_Witness ==
    /\ Emitted
    /\ MarkerWalk(sdr_jpeg, 2).exif_pos # -1
    /\ ~HasExifApp1(result.bytes)

\* C2: in every emitted file MP entry 1 has offset 0 and size = file length
\* minus len(gainmap_jpeg), MP entry 2 has size len(gainmap_jpeg), the bytes
\* from the secondary SOI to the end of the file, and neither the entry-1 size
\* nor the entry-2 offset is the placeholder 0.
C2_MpEntriesPatched ==
    Emitted =>
        LET f == result.bytes
            e1 == MpEntry(f, 1)
            e2 == MpEntry(f, 2)
        IN  /\ e1.offset = 0
            /\ e1.size = Len(f) - Len(gainmap_jpeg)
            /\ e2.size = Len(gainmap_jpeg)
            /\ e2.size = Len(f) - (BoPosInFile(f) + e2.offset)
            /\ e1.size # 0
            /\ e2.offset # 0

\* C2 witness: a file emitted with a synthesized MakerApple EXIF APP1.
C2_Witness == Emitted /\ HasExifApp1(result.bytes)

\* C8 (as claimed): a file produced by create_ultra_hdr_jpeg has no MakerApple
\* EXIF APP1; its XMP APP1 immediately follows SOI.
C8_UltraHdrHasNoMakerApple ==
    (fn = "create_ultra_hdr_jpeg" /\ output_file.exists) =>
        /\ ~HasExifApp1(output_file.bytes)
        /\ XmpApp1Len(output_file.bytes, 2) # 0

\* C9 (as claimed): the Ultra HDR pipeline encodes the gain map at W/4 by H/4,
\* the Apple pipeline at W by H.
C9_UltraHdrGainMapDownscaled ==
    /\ fn = "create_ultra_hdr_jpeg" =>
           gain_map_size = <<sdr_size[1] \div 4, sdr_size[2] \div 4>>
    /\ fn = "create_apple_gainmap_jpeg" => gain_map_size = sdr_size

\* b"Item:Length='"
ItemLengthAttr == <<73, 116, 101, 109, 58, 76, 101, 110, 103, 116, 104, 61, 39>>

\* The decimal number that starts at 0-based position pos of f.
RECURSIVE ParseInt(_, _, _)
ParseInt(f, pos, acc) ==
    IF pos < Len(f) /\ f[pos + 1] \in 48..57
    THEN ParseInt(f, pos + 1, acc * 10 + (f[pos + 1] - 48))
    ELSE acc

\* The value of the first Item:Length attribute of f (-1 if there is none).
ItemLengthInFile(f) ==
    LET hits == { i \in 0..(Len(f) - Len(ItemLengthAttr)) :
                    Slice(f, i, i + Len(ItemLengthAttr)) = ItemLengthAttr }
    IN  IF hits = {} THEN -1
        ELSE LET i == CHOOSE h \in hits : \A o \in hits : h <= o
             IN  ParseInt(f, i + Len(ItemLengthAttr), 0)

\* C10: in every Ultra HDR JPEG the Item:Length of the primary XMP equals the
\* byte count of the secondary JPEG as emitted (from its SOI, located through
\* MP entry 2, to the end of the file) and the MP entry 2 size field.
C10_ItemLengthIsSecondarySize ==
    (fn = "create_ultra_hdr_jpeg" /\ output_file.exists) =>
        LET f == output_file.bytes
            e2 == MpEntry(f, 2)
        IN  /\ ItemLengthInFile(f) = Len(f) - (BoPosInFile(f) + e2.offset)
            /\ ItemLengthInFile(f) = e2.size
            /\ ItemLengthInFile(f) = Len(gainmap_jpeg)

\* C10 witness: an Ultra HDR file whose secondary JPEG carries its injected XMP.
C10_Witness ==
    /\ fn = "create_ultra_hdr_jpeg"
    /\ output_file.exists
    /\ XmpApp1Len(gainmap_jpeg, 2) # 0
    /\ ItemLengthInFile(output_file.bytes) > 0

C12_MakerNoteCountSpansTiff ==
    (fn = "_inject_makerapple_exif" /\ result.err = "" /\ result.bytes # sdr_jpeg) =>
        LET f == result.bytes
            tiff == 12
            tiff_len == UnpackH(Slice(f, 4, 6)) - 2 - Len(ExifSig)
            entry == tiff + 8 + 2
            offset == UnpackI(Slice(f, entry + 8, entry + 12))
            count == UnpackI(Slice(f, entry + 4, entry + 8))
        IN  /\ UnpackH(Slice(f, entry, entry + 2)) = 37500
            /\ UnpackH(Slice(f, entry + 2, entry + 4)) = 7
            /\ offset = 26
            /\ Slice(f, tiff + offset, tiff + offset + 8)
                   = <<65, 112, 112, 108, 101, 0, 0, 0>>
            /\ count = 8 + Len(_build_makerapple_ifd(peak_nits))
            /\ offset + count = tiff_len

\* C13 (as claimed): for every jpeg beginning with FF D8 and every xmp_bytes x,
\* _inject_xmp_into_jpeg returns FF D8, FF E1, u16_be(len(payload) + 2),
\* payload, jpeg[2..] with payload = xmp_header + x; the result is
\* len(payload) + 4 bytes longer than jpeg, and cutting the segment found
\* through its length field out of the result gives jpeg back.
C13_InjectXmpRoundTripAnyPacket ==
    (fn = "_inject_xmp_into_jpeg" /\ Slice(sdr_jpeg, 0, 2) = <<255, 216>>) =>
        LET r == result.bytes
            n == Len(xmp_header) + Len(primary_xmp)
        IN  /\ result.err = ""
            /\ r = <<255, 216, 255, 225, (n + 2) \div 256, (n + 2) % 256>>
                       \o xmp_header \o primary_xmp \o SliceFrom(sdr_jpeg, 2)
            /\ Len(r) = Len(sdr_jpeg) + n + 4
            /\ Slice(r, 0, 2) \o SliceFrom(r, 2 + 2 + UnpackH(Slice(r, 4, 6)))
                   = sdr_jpeg

\* C13: the same, for every xmp_bytes x whose payload fits one APP1 segment
\* (len(xmp_header) + len(x) + 2 <= 65535); for a longer x the call raises
\* struct.error and returns nothing.
C13_InjectXmpRoundTrip ==
    (fn = "_inject_xmp_into_jpeg" /\ Slice(sdr_jpeg, 0, 2) = <<255, 216>>) =>
        LET r == result.bytes
            n == Len(xmp_header) + Len(primary_xmp)
        IN  IF n + 2 <= 65535
            THEN /\ result.err = ""
                 /\ r = <<255, 216, 255, 225, (n + 2) \div 256, (n + 2) % 256>>
                            \o xmp_header \o primary_xmp \o SliceFrom(sdr_jpeg, 2)
                 /\ Len(r) = Len(sdr_jpeg) + n + 4
                 /\ Slice(r, 0, 2) \o SliceFrom(r, 2 + 2 + UnpackH(Slice(r, 4, 6)))
                        = sdr_jpeg
            ELSE result = [err |-> "struct.error", bytes |-> <<>>]

\* C13 witness: a non-empty packet injected into a JPEG that has segments of
\* its own after SOI.
C13_Witness ==
    /\ fn = "_inject_xmp_into_jpeg"
    /\ result.err = ""
    /\ primary_xmp # <<>>
    /\ Len(sdr_jpeg) > 4
    /\ Len(result.bytes) > Len(sdr_jpeg)

\* C14: _inject_xmp_into_jpeg, _inject_makerapple_exif and _build_mpf_jpeg (for
\* its sdr_jpeg and for its gainmap_jpeg argument) end with an AssertionError
\* when the blob's first two bytes are not FF D8; no bytes are returned and no
\* file is written.
C14_NonJpegInputRejected ==
    LET is_jpeg(b) == Len(b) >= 2 /\ b[1] = 255 /\ b[2] = 216
        rejected == /\ result.err = "AssertionError"
                    /\ result.bytes = <<>>
                    /\ ~output_file.exists
    IN  /\ (fn \in {"_inject_xmp_into_jpeg", "_inject_makerapple_exif"}
                /\ ~is_jpeg(sdr_jpeg)) => rejected
        /\ (fn = "_build_mpf_jpeg"
                /\ (~is_jpeg(sdr_jpeg) \/ ~is_jpeg(gainmap_jpeg))) => rejected

\* C14 witness: _build_mpf_jpeg called with a JPEG as sdr_jpeg and PNG
\* signature bytes as gainmap_jpeg.
C14_Witness ==
    /\ fn = "_build_mpf_jpeg"
    /\ Slice(sdr_jpeg, 0, 2) = SOI
    /\ gainmap_jpeg = <<137, 80, 78, 71>>
    /\ result.err = "AssertionError"

\* C22: a file emitted by _build_mpf_jpeg is SOI, the MakerApple EXIF APP1
\* when one was synthesized, the XMP APP1 of primary_xmp, the MPF APP2
\* segment, sdr_jpeg without its first two bytes and the whole of
\* gainmap_jpeg, in this order and with nothing else; the MPF APP2 segment is
\* 90 bytes long with length field 88, with the placeholders as with the
\* patched values, and the MP-entry block starts 50 bytes after "MM".
C22_FileLayout ==
    Emitted =>
        LET f == result.bytes
            e == ExifApp1Len(f)
            x == 2 + e
            xl == 4 + Len(xmp_header) + Len(primary_xmp)
            m == x + xl
            rest == m + 90
            gm == rest + Len(sdr_jpeg) - 2
        IN  /\ Slice(f, 0, 2) = SOI
            /\ e > 0 => MarkerWalk(sdr_jpeg, 2).exif_pos = -1
            /\ Slice(f, x, m) =
                   <<255, 225>> \o PackH(xl - 2) \o xmp_header \o primary_xmp
            /\ Slice(f, m, m + 2) = <<255, 226>>
            /\ UnpackH(Slice(f, m + 2, m + 4)) = 88
            /\ Slice(f, m + 4, m + 8) = MpfSig
            /\ Slice(f, m + 8, m + 10) = ByteOrderMM
            /\ MpEntriesInFile(f) = m + 8 + 50
            /\ MpEntriesInFile(f) + 32 = rest
            /\ Len(mpf_placeholder(gainmap_jpeg)) + 4 = 90
            /\ Slice(f, rest, gm) = SliceFrom(sdr_jpeg, 2)
            /\ SliceFrom(f, gm) = gainmap_jpeg
            /\ Len(f) = gm + Len(gainmap_jpeg)

\* C22 witness: a file emitted by a direct call with a synthesized EXIF APP1,
\* a non-empty XMP packet and an SDR JPEG that has bytes after SOI.
C22_Witness ==
    /\ fn = "_build_mpf_jpeg"
    /\ result.err = ""
    /\ HasExifApp1(result.bytes)
    /\ primary_xmp # <<>>
    /\ Len(sdr_jpeg) > 2

\* The positions at which the marker walk evaluates its loop, from pos, at
\* most fuel + 1 of them.
RECURSIVE WalkPositions(_, _, _)
WalkPositions(d, pos, fuel) ==
    IF fuel = 0 \/ walk_step(d, pos).done THEN <<pos>>
    ELSE <<pos>> \o WalkPositions(d, walk_step(d, pos).pos, fuel - 1)

\* C23: on an input that begins with FF D8 the marker walk of
\* _inject_makerapple_exif starts at offset 2; from a position it advances
\* by 2 at an RSTn marker and by 2 + the big-endian 16-bit length at any
\* other marker, so the position strictly increases; it is left at FF D9,
\* at FF DA, at a byte that is not FF, at the end of the data (a length
\* field cut by the end included) or at the first Exif APP1; it takes fewer
\* steps than the input has bytes, and the bytes of the input are returned
\* unmodified (all of them, or all after SOI behind the new EXIF APP1).
C23_MarkerWalkAdvances ==
    (fn = "_inject_makerapple_exif" /\ Slice(sdr_jpeg, 0, 2) = SOI) =>
        LET d == sdr_jpeg
            P == WalkPositions(d, 2, Len(d))
            last == P[Len(P)]
            IsRst(p) == d[p + 2] >= 208 /\ d[p + 2] <= 215
            AtExif(p) == /\ Slice(d, p, p + 2) = <<255, 225>>
                         /\ Len(Slice(d, p + 2, p + 4)) = 2
                         /\ Slice(d, p + 4, p + 10) = ExifSig
        IN  /\ P[1] = 2
            /\ Len(P) < Len(d)
            /\ \A k \in 1..(Len(P) - 1) :
                   /\ P[k + 1] > P[k]
                   /\ ~AtExif(P[k])
                   /\ P[k + 1] = IF IsRst(P[k]) THEN P[k] + 2
                                 ELSE P[k] + 2
                                          + UnpackH(Slice(d, P[k] + 2, P[k] + 4))
            /\ \/ last >= Len(d) - 1
               \/ d[last + 1] # 255
               \/ Slice(d, last, last + 2) \in {<<255, 217>>, <<255, 218>>}
               \/ AtExif(last)
               \/ (~IsRst(last) /\ last + 4 > Len(d)
                       /\ result.err = "struct.error")
            /\ result.err \in {"", "struct.error"}
            /\ result.err = "" =>
                   /\ Slice(result.bytes, 0, 2) = SOI
                   /\ SliceFrom(result.bytes,
                                 Len(result.bytes) - (Len(d) - 2))
                          = SliceFrom(d, 2)
                   /\ AtExif(last) => result.bytes = d

\* C23 witness: a walk over an RSTn marker, a segment with length field 2
\* and another RSTn marker that is left at FF DA.
C23_Witness ==
    /\ fn = "_inject_makerapple_exif"
    /\ result.err = ""
    /\ WalkPositions(sdr_jpeg, 2, Len(sdr_jpeg)) = <<2, 4, 8, 10>>
    /\ Slice(sdr_jpeg, 10, 12) = <<255, 218>>

(***************************************************************************)
(* Batch export jobs (services/batch_service.py and the equivalent         *)
(* BatchJobManager of services/batch_manager.py).                          *)
(*                                                                         *)
(* Handlers and tasks run on one asyncio event loop: a callback runs alone *)
(* until it returns or awaits.  running_task names the batch task that     *)
(* holds the loop (0: the loop is free to run another handler).            *)
(* Batch ids (uuid4 prefixes) are modelled as fresh numbers 1, 2, ...      *)
(***************************************************************************)
\* Batches created in one behaviour.
MaxBatches == 2

\* Largest value of the clock.
MaxTime == 2

\* BatchJobManager(max_jobs, max_age_seconds) as instantiated in the model.
max_jobs == 1

max_age_seconds == 1

\* The fields of BatchRequest (core/models.py); the APL range is what varies.
BatchRequest(start, end, step) ==
    [width |-> 1920, height |-> 1080,
     apl_range_start |-> start, apl_range_end |-> end, apl_step |-> step,
     shape |-> "rectangle", color_space |-> "rec709", hdr_mode |-> "none",
     hdr_peak_nits |-> 1000, export_format |-> "png", output_directory |-> ""]

\* Requests the model posts: two values, one value, stepped, and an empty
\* range (apl_range_start > apl_range_end passes validation).
Requests ==
    { BatchRequest(1, 2, 1), BatchRequest(3, 3, 1), BatchRequest(1, 4, 2),
      BatchRequest(2, 1, 1) }

\* A variant that lists the values from the largest down.
RECURSIVE PyRangeDescending(_, _, _)
PyRangeDescending(start, stop, step) ==
    IF start >= stop THEN <<>>
    ELSE PyRangeDescending(start + step, stop, step) \o <<start>>

\* list(range(start, stop, step)) for step >= 1
RECURSIVE PyRange(_, _, _)
PyRange(start, stop, step) ==
    IF start >= stop THEN <<>> ELSE <<start>> \o PyRange(start + step, stop, step)

BatchStatus(st, total, completed, failed, current_apl) ==
    [status |-> st, total |-> total, completed |-> completed, failed |-> failed,
     current_apl |-> current_apl]

\* current_apl = None (APL values are >= 1)
None == 0

\* The attributes of request that GenerateRequest(...) in _execute_batch reads.
GenerateRequestReads ==
    { "width", "height", "shape", "color_space", "hdr_mode", "hdr_peak_nits",
      "hdr_video_peak_nits", "export_format", "output_directory" }

\* Building gen_request raises AttributeError when request lacks an attribute
\* that is read (pydantic models raise on unknown attributes).
GenerateRequestRaises(request) ==
    \E a \in GenerateRequestReads : a \notin DOMAIN request

\* What the try block of one iteration does.  BatchRequest has no field
\* hdr_video_peak_nits, so building gen_request raises before
\* asyncio.to_thread(export_single, ...) is reached: the block never awaits
\* and export_single is never called from a batch.
TryExport(request, apl) ==
    CASE GenerateRequestRaises(request) -> "raised"

\* status.completed += 1
on_success(status) == [status EXCEPT !.completed = @ + 1]

\* A handler that counts a raised export in both counters.
on_exception_counts_both(status) ==
    [status EXCEPT !.failed = @ + 1, !.completed = @ + 1]

\* A handler that swallows the exception without counting it.
on_exception_uncounted(status) == status

\* except Exception: status.failed += 1
on_exception(status) == [status EXCEPT !.failed = @ + 1]

\* A variant that leaves the status as it is after the loop.
final_status_skipped(status) == status

\* The final assignment without its "if status.status == 'running'" guard.
final_status_unguarded(status) ==
    [status EXCEPT !.status = IF status.failed = 0 THEN "completed" ELSE "failed"]

\* if status.status == "running":
\*     status.status = "completed" if status.failed == 0 else "failed"
final_status(status) ==
    IF status.status = "running"
    THEN [status EXCEPT !.status = IF status.failed = 0 THEN "completed" ELSE "failed"]
    ELSE status

\* A loop that never looks at the cancel flag.
cancel_flag_ignored(flags, b) == FALSE

\* _batch_cancel.get(batch_id, False)
cancel_requested(flags, b) == IF b \in DOMAIN flags THEN flags[b] ELSE FALSE

\* d.pop(k, None) on a dict modelled as a function.
Pop(d, k) == [x \in DOMAIN d \ {k} |-> d[x]]

\* d[k] = v
Put(d, k, v) == [x \in DOMAIN d \cup {k} |-> IF x = k THEN v ELSE d[x]]

EmptyDict == <<>>

\* The registry after BatchJobManager._prune_jobs at time t, given the status
\* objects st (id -> BatchStatus).  First pass: created_times in dict order.
RECURSIVE PruneOld(_, _, _, _)
PruneOld(reg, ids, st, t) ==
    IF ids = <<>> THEN reg
    ELSE LET b == Head(ids) IN
         IF b \notin reg.jobs
         THEN PruneOld([reg EXCEPT !.created = Pop(@, b), !.cancel = Pop(@, b)],
                       Tail(ids), st, t)
         ELSE IF st[b].status # "running" /\ t - reg.created[b] > max_age_seconds
         THEN PruneOld([jobs |-> reg.jobs \ {b}, cancel |-> Pop(reg.cancel, b),
                        created |-> Pop(reg.created, b)], Tail(ids), st, t)
         ELSE PruneOld(reg, Tail(ids), st, t)

\* A variant of the second pass that drops jobs whatever their status.
RECURSIVE PruneCapAnyStatus(_, _, _)
PruneCapAnyStatus(reg, ids, st) ==
    IF ids = <<>> THEN reg
    ELSE LET b == Head(ids) IN
         IF b \in reg.jobs
         THEN LET r == [jobs |-> reg.jobs \ {b}, cancel |-> Pop(reg.cancel, b),
                        created |-> Pop(reg.created, b)]
              IN  IF Cardinality(r.jobs) <= max_jobs THEN r
                  ELSE PruneCapAnyStatus(r, Tail(ids), st)
         ELSE PruneCapAnyStatus(reg, Tail(ids), st)

\* Second pass: cap the number of jobs, dropping finished ones in dict order.
RECURSIVE PruneCap(_, _, _)
PruneCap(reg, ids, st) ==
    IF ids = <<>> THEN reg
    ELSE LET b == Head(ids) IN
         IF b \in reg.jobs /\ st[b].status # "running"
         THEN LET r == [jobs |-> reg.jobs \ {b}, cancel |-> Pop(reg.cancel, b),
                        created |-> Pop(reg.created, b)]
              IN  IF Cardinality(r.jobs) <= max_jobs THEN r
                  ELSE PruneCap(r, Tail(ids), st)
         ELSE PruneCap(reg, Tail(ids), st)

\* The keys of a dict whose keys are ids, in insertion (= ascending) order.
RECURSIVE KeysInOrder(_)
KeysInOrder(S) ==
    IF S = {} THEN <<>>
    ELSE LET m == CHOOSE x \in S : \A y \in S : x <= y
         IN  <<m>> \o KeysInOrder(S \ {m})

_prune_jobs(reg, st, t) ==
    LET r == PruneOld(reg, KeysInOrder(DOMAIN reg.created), st, t) IN
    IF Cardinality(r.jobs) <= max_jobs THEN r
    ELSE PruneCap(r, KeysInOrder(r.jobs), st)

InitBatch ==
    /\ ContainerIdle
    /\ IccIdle
    /\ ExportIdle
    /\ impl \in {"batch_service", "batch_manager"}
    /\ batch_jobs = {}
    /\ batch_cancel = EmptyDict
    /\ created_times = EmptyDict
    /\ tasks = EmptyDict
    /\ notified = EmptyDict
    /\ attempted = EmptyDict
    /\ running_task = 0
    /\ now = 0
    /\ _ws_clients = {}
    /\ progress_call = NoCall

NewTask(request) ==
    LET apl_values == PyRange(request.apl_range_start, request.apl_range_end + 1,
                              request.apl_step)
    IN  [request |-> request, apl_values |-> apl_values, pc |-> "scheduled",
         i |-> 1,
         status |-> BatchStatus("running", Len(apl_values), 0, 0, None)]

\* batch_service.run_batch(request)
run_batch ==
    \E request \in Requests :
        LET b == Cardinality(DOMAIN tasks) + 1 IN
        /\ impl = "batch_service"
        /\ running_task = 0
        /\ b <= MaxBatches
        /\ batch_jobs' = batch_jobs \cup {b}
        /\ batch_cancel' = Put(batch_cancel, b, FALSE)
        /\ tasks' = Put(tasks, b, NewTask(request))
        /\ notified' = Put(notified, b, <<>>)
        /\ attempted' = Put(attempted, b, <<>>)
        /\ UNCHANGED <<impl, created_times, running_task, now>>
        /\ UNCHANGED <<containerVars, iccVars, exportVars, progressVars>>

\* BatchJobManager.create(request)
create ==
    \E request \in Requests :
        LET b == Cardinality(DOMAIN tasks) + 1
            t == Put(tasks, b, NewTask(request))
            reg == _prune_jobs([jobs |-> batch_jobs \cup {b},
                                cancel |-> Put(batch_cancel, b, FALSE),
                                created |-> Put(created_times, b, now)],
                               [x \in DOMAIN t |-> t[x].status], now)
        IN
        /\ impl = "batch_manager"
        /\ running_task = 0
        /\ b <= MaxBatches
        /\ batch_jobs' = reg.jobs
        /\ batch_cancel' = reg.cancel
        /\ created_times' = reg.created
        /\ tasks' = t
        /\ notified' = Put(notified, b, <<>>)
        /\ attempted' = Put(attempted, b, <<>>)
        /\ UNCHANGED <<impl, running_task, now>>
        /\ UNCHANGED <<containerVars, iccVars, exportVars, progressVars>>

\* A variant that sets the flag without looking whether the id has one.
cancel_batch_unconditional ==
    \E batch_id \in 1..(Cardinality(DOMAIN tasks) + 1) :
        /\ running_task = 0
        /\ batch_cancel' = Put(batch_cancel, batch_id, TRUE)
        /\ UNCHANGED <<impl, batch_jobs, created_times, tasks, notified,
                       attempted, running_task, now>>
        /\ UNCHANGED <<containerVars, iccVars, exportVars, progressVars>>

\* cancel_batch(batch_id) / BatchJobManager.cancel(batch_id), for the ids of
\* the batches created so far and for one unknown id.
cancel_batch ==
    \E batch_id \in 1..(Cardinality(DOMAIN tasks) + 1) :
        /\ running_task = 0
        /\ batch_cancel' = IF batch_id \in DOMAIN batch_cancel
                           THEN [batch_cancel EXCEPT ![batch_id] = TRUE]
                           ELSE batch_cancel
        /\ UNCHANGED <<impl, batch_jobs, created_times, tasks, notified,
                       attempted, running_task, now>>
        /\ UNCHANGED <<containerVars, iccVars, exportVars, progressVars>>

\* The event loop starts the task: status = _batch_jobs[batch_id].
TaskStart ==
    \E b \in DOMAIN tasks :
    /\ running_task = 0
    /\ tasks[b].pc = "scheduled"
    /\ tasks' = [tasks EXCEPT ![b].pc = "for"]
    /\ running_task' = b
    /\ UNCHANGED <<impl, batch_jobs, batch_cancel, created_times, notified,
                   attempted, now>>
    /\ UNCHANGED <<containerVars, iccVars, exportVars, progressVars>>

\* One pass through the body of "for apl in apl_values".
Iterate ==
    \E b \in DOMAIN tasks :
    LET t == tasks[b]
        apl == t.apl_values[t.i]
    IN
    /\ running_task = b
    /\ t.pc = "for"
    /\ t.i <= Len(t.apl_values)
    /\ IF cancel_requested(batch_cancel, b)
       THEN LET s == [t.status EXCEPT !.status = "cancelled"] IN
            /\ tasks' = [tasks EXCEPT ![b].status = s, ![b].pc = "after_loop"]
            /\ notified' = [notified EXCEPT ![b] = Append(@, s)]
            /\ UNCHANGED attempted
       ELSE LET s1 == [t.status EXCEPT !.current_apl = apl]
                outcome == TryExport(t.request, apl)
                s2 == IF outcome = "raised" THEN on_exception(s1) ELSE on_success(s1)
            IN
            /\ tasks' = [tasks EXCEPT ![b].status = s2, ![b].i = t.i + 1]
            /\ notified' = [notified EXCEPT ![b] = @ \o <<s1, s2>>]
            /\ attempted' = [attempted EXCEPT ![b] = Append(@, <<apl, outcome>>)]
    /\ UNCHANGED <<impl, batch_jobs, batch_cancel, created_times, running_task, now>>
    /\ UNCHANGED <<containerVars, iccVars, exportVars, progressVars>>

\* After the loop: final status, last notification, cleanup; the task ends.
Finish ==
    \E b \in DOMAIN tasks :
        /\ running_task = b
        /\ \/ tasks[b].pc = "after_loop"
           \/ tasks[b].pc = "for" /\ tasks[b].i > Len(tasks[b].apl_values)
        /\ \E s \in {[final_status(tasks[b].status) EXCEPT !.current_apl = None]} :
           \E reg \in {IF impl = "batch_manager"
                       THEN _prune_jobs([jobs |-> batch_jobs,
                                         cancel |-> Pop(batch_cancel, b),
                                         created |-> created_times],
                                        [x \in DOMAIN tasks |->
                                            IF x = b THEN s ELSE tasks[x].status],
                                        now)
                       ELSE [jobs |-> batch_jobs, cancel |-> Pop(batch_cancel, b),
                             created |-> created_times]} :
                /\ tasks' = [tasks EXCEPT ![b].status = s, ![b].pc = "done"]
                /\ notified' = [notified EXCEPT ![b] = Append(@, s)]
                /\ batch_jobs' = reg.jobs
                /\ batch_cancel' = reg.cancel
                /\ created_times' = reg.created
        /\ running_task' = 0
        /\ UNCHANGED <<impl, attempted, now>>
        /\ UNCHANGED <<containerVars, iccVars, exportVars, progressVars>>

\* Time passes between handlers.
Tick ==
    /\ running_task = 0
    /\ now < MaxTime
    /\ now' = now + 1
    /\ UNCHANGED <<impl, batch_jobs, batch_cancel, created_times, tasks, notified,
                   attempted, running_task>>
    /\ UNCHANGED <<containerVars, iccVars, exportVars, progressVars>>

NextBatch ==
    \/ run_batch
    \/ create
    \/ cancel_batch
    \/ TaskStart
    \/ Iterate
    \/ Finish
    \/ Tick

SpecBatch == InitBatch /\ [][NextBatch]_vars


Terminal == {"completed", "failed", "cancelled"}

\* status.status of batch b
StatusField(b) == tasks[b].status.status

\* C3: the status of every batch job leaves "running" exactly once, to one of
\* completed / failed / cancelled, and a terminal status never changes again:
\* every change of the status field starts from "running" and ends in a
\* terminal status (so no step changes a terminal status), a batch is
\* created "running", and a batch whose task has ended has left "running".
C3_StatusLeavesRunningOnce ==
    /\ [](\A b \in DOMAIN tasks :
            /\ StatusField(b) \in Terminal \cup {"running"}
            /\ tasks[b].pc = "scheduled" => StatusField(b) = "running"
            /\ tasks[b].pc = "done" => StatusField(b) \in Terminal)
    /\ [][\A b \in DOMAIN tasks :
            StatusField(b)' # StatusField(b)
                => StatusField(b) = "running" /\ StatusField(b)' \in Terminal]_vars

\* A cancelled batch passed the final-status assignment and, beside it, another
\* batch ended failed.
C3_Witness ==
    \E b, c \in DOMAIN tasks :
        /\ tasks[b].pc = "done" /\ StatusField(b) = "cancelled"
        /\ tasks[c].pc = "done" /\ StatusField(c) = "failed"

\* The number of APL values of a request, counted without building the list.
AplCount(request) ==
    Cardinality({ a \in request.apl_range_start..request.apl_range_end :
                    (a - request.apl_range_start) % request.apl_step = 0 })

\* C4: completed and failed never decrease, each attempted APL value increases
\* exactly one of them by exactly 1, and completed + failed <= total, total
\* being the number of APL values of the batch.
C4_CountersMonotoneAndBounded ==
    /\ [](\A b \in DOMAIN tasks :
            LET s == tasks[b].status IN
            /\ s.total = AplCount(tasks[b].request)
            /\ s.completed + s.failed = Len(attempted[b])
            /\ s.completed + s.failed <= s.total)
    /\ [][\A b \in DOMAIN tasks :
            LET s == tasks[b].status
                n == tasks'[b].status
                attempts == Len(attempted'[b]) - Len(attempted[b])
            IN  /\ n.completed >= s.completed
                /\ n.failed >= s.failed
                /\ attempts \in {0, 1}
                /\ attempts = 1 =>
                      \/ n.completed = s.completed + 1 /\ n.failed = s.failed
                      \/ n.completed = s.completed /\ n.failed = s.failed + 1
                /\ attempts = 0 =>
                      n.completed = s.completed /\ n.failed = s.failed]_vars

\* Every value of a batch of two or more values was attempted.
C4_Witness ==
    \E b \in DOMAIN tasks :
        /\ tasks[b].status.total >= 2
        /\ Len(attempted[b]) = tasks[b].status.total
        /\ tasks[b].status.completed + tasks[b].status.failed = tasks[b].status.total

\* The cancel flag of batch b is set in the registry.
FlagSet(b) == b \in DOMAIN batch_cancel /\ batch_cancel[b]

\* Batch b is at the top of the loop body with a value left to export.
AtIterationStart(b) ==
    /\ running_task = b
    /\ tasks[b].pc = "for"
    /\ tasks[b].i <= Len(tasks[b].apl_values)

AttemptedApls(b) == [k \in 1..Len(attempted[b]) |-> attempted[b][k][1]]

\* C6: an export that raises adds 1 to failed and leaves completed alone, the
\* value is not retried, the loop goes on with the next value (the task is
\* not aborted), and a batch that was not cancelled ends "failed" exactly when
\* failed > 0.
C6_RaisedExportIsCountedAndSkipped ==
    /\ [](\A b \in DOMAIN tasks :
            LET s == tasks[b].status IN
            /\ AttemptedApls(b) = SubSeq(tasks[b].apl_values, 1, Len(attempted[b]))
            /\ s.failed = Cardinality({ k \in 1..Len(attempted[b]) :
                                          attempted[b][k][2] = "raised" })
            /\ (tasks[b].pc = "done" /\ s.status # "cancelled")
                  => /\ Len(attempted[b]) = s.total
                     /\ s.status = "failed" <=> s.failed > 0)
    /\ [][\A b \in DOMAIN tasks :
            (/\ Len(attempted'[b]) = Len(attempted[b]) + 1
             /\ attempted'[b][Len(attempted'[b])][2] = "raised")
                => /\ tasks'[b].status.failed = tasks[b].status.failed + 1
                   /\ tasks'[b].status.completed = tasks[b].status.completed
                   /\ tasks'[b].i = tasks[b].i + 1
                   /\ tasks'[b].pc = "for"
                   /\ StatusField(b)' = "running"]_vars

\* A batch went on after a raised export and ended failed with every value
\* counted once.
C6_Witness ==
    \E b \in DOMAIN tasks :
        /\ tasks[b].pc = "done"
        /\ StatusField(b) = "failed"
        /\ tasks[b].status.failed >= 2
        /\ \A k \in 1..Len(attempted[b]) : attempted[b][k][2] = "raised"

\* C24: BatchJobManager._prune_jobs, run by create and at the end of a task,
\* removes no job whose status is "running"; when it returns the registry
\* holds at most max_jobs jobs or only running ones; and a removed job loses
\* its cancel flag and its created time with it, so that afterwards every
\* cancel flag and every created time belongs to a job of the registry.
C24_PruneKeepsRunningJobs ==
    [][(impl = "batch_manager"
           /\ \/ DOMAIN tasks' # DOMAIN tasks
              \/ \E b \in DOMAIN tasks :
                     tasks[b].pc # "done" /\ tasks'[b].pc = "done")
        => /\ \A b \in DOMAIN tasks' :
                  StatusField(b)' = "running"
                      /\ (b \in batch_jobs \/ b \notin DOMAIN tasks)
                      => b \in batch_jobs'
           /\ \/ Cardinality(batch_jobs') <= max_jobs
              \/ \A b \in batch_jobs' : StatusField(b)' = "running"
           /\ \A b \in batch_jobs \ batch_jobs' :
                  /\ b \notin DOMAIN batch_cancel'
                  /\ b \notin DOMAIN created_times'
           /\ DOMAIN batch_cancel' \subseteq batch_jobs'
           /\ DOMAIN created_times' \subseteq batch_jobs']_vars

\* C24 witness: a finished job was pruned with its cancel flag and created
\* time while a running job stays in the registry.
C24_Witness ==
    /\ impl = "batch_manager"
    /\ DOMAIN tasks = {1, 2}
    /\ tasks[1].pc = "done"
    /\ 1 \notin batch_jobs
    /\ batch_jobs = {2}
    /\ StatusField(2) = "running"
    /\ DOMAIN batch_cancel = {2}
    /\ DOMAIN created_times = {2}

\* C26 (as claimed): building the GenerateRequest of an item never fails,
\* and a batch that was not cancelled, every export of which would succeed,
\* ends "completed" with completed = total and failed = 0.
C26_SuccessfulBatchCompletes ==
    \A b \in DOMAIN tasks :
        /\ \A k \in 1..Len(attempted[b]) : attempted[b][k][2] # "raised"
        /\ (tasks[b].pc = "done" /\ StatusField(b) # "cancelled")
              => /\ StatusField(b) = "completed"
                 /\ tasks[b].status.completed = tasks[b].status.total
                 /\ tasks[b].status.failed = 0

\* C27 (as claimed): a batch for which cancel_batch returned True (its flag
\* is set, and stays set until the task removes it when it ends) ends with
\* final status "cancelled", whenever the request was made.
C27_AcceptedCancelEndsCancelled ==
    [][\A b \in DOMAIN tasks :
          (FlagSet(b) /\ tasks[b].pc # "done" /\ tasks'[b].pc = "done")
              => StatusField(b)' = "cancelled"]_vars

\* C28: whenever the event loop is free to run another handler, a batch has
\* a cancel-flag entry exactly when its status is "running", and no other
\* id has one; so cancel_batch, which returns whether the id has an entry,
\* returns True exactly for running batches, and a step that changes the
\* flags and nothing of the tasks sets the flag of one running batch and
\* changes nothing else.
C28_FlagIffRunning ==
    /\ [](running_task = 0 =>
             /\ DOMAIN batch_cancel \subseteq DOMAIN tasks
             /\ \A b \in DOMAIN tasks :
                    b \in DOMAIN batch_cancel <=> StatusField(b) = "running")
    /\ [][(batch_cancel' # batch_cancel /\ tasks' = tasks) =>
             /\ \E b \in DOMAIN batch_cancel :
                    /\ StatusField(b) = "running"
                    /\ batch_cancel' = [batch_cancel EXCEPT ![b] = TRUE]
             /\ UNCHANGED <<impl, batch_jobs, created_times, notified,
                            attempted, running_task, now>>]_vars

\* C28 witness: the loop is free, one batch has ended and has no flag, a
\* running one has its flag set by an accepted cancel request.
C28_Witness ==
    /\ running_task = 0
    /\ DOMAIN tasks = {1, 2}
    /\ StatusField(1) \in Terminal
    /\ 1 \notin DOMAIN batch_cancel
    /\ StatusField(2) = "running"
    /\ FlagSet(2)

\* The event loop runs every ready callback: a scheduled task is started and
\* a started task is resumed until it ends (every export terminates).
\* Weak fairness of TaskStart, Iterate and Finish, with their enabling
\* conditions written out.
SpecBatchFair ==
    /\ InitBatch
    /\ [][NextBatch]_vars
    /\ \/ []<>(~(running_task = 0
                   /\ \E b \in DOMAIN tasks : tasks[b].pc = "scheduled"))
       \/ []<><<TaskStart>>_vars
    /\ \/ []<>(~(\E b \in DOMAIN tasks :
                    /\ running_task = b
                    /\ tasks[b].pc = "for"
                    /\ tasks[b].i <= Len(tasks[b].apl_values)))
       \/ []<><<Iterate>>_vars
    /\ \/ []<>(~(\E b \in DOMAIN tasks :
                    /\ running_task = b
                    /\ \/ tasks[b].pc = "after_loop"
                       \/ /\ tasks[b].pc = "for"
                          /\ tasks[b].i > Len(tasks[b].apl_values)))
       \/ []<><<Finish>>_vars

\* Batch b has ended: terminal status, current_apl None, the final status
\* was the last one passed to _notify_progress, the cancel flag is removed.
Ended(b) ==
    /\ b \in DOMAIN tasks
    /\ tasks[b].pc = "done"
    /\ StatusField(b) \in Terminal
    /\ tasks[b].status.current_apl = None
    /\ Len(notified[b]) > 0
    /\ notified[b][Len(notified[b])] = tasks[b].status
    /\ b \notin DOMAIN batch_cancel

\* C29: every batch that is created eventually ends, and stays ended: its
\* status is terminal, current_apl is None, a final notification was issued
\* and its cancel flag is removed; a batch with an empty range ends
\* "completed" with total = 0 and both counters 0.
C29_EveryBatchEnds ==
    /\ \A b \in 1..MaxBatches : (b \in DOMAIN tasks) ~> []Ended(b)
    /\ [](\A b \in DOMAIN tasks :
             /\ tasks[b].pc = "done" => Ended(b)
             /\ (tasks[b].pc = "done" /\ tasks[b].apl_values = <<>>)
                   => tasks[b].status = BatchStatus("completed", 0, 0, 0, None))

\* C29 witness: a batch with an empty range has ended and another batch
\* with values has ended too.
C29_Witness ==
    /\ DOMAIN tasks = {1, 2}
    /\ Ended(1) /\ tasks[1].apl_values = <<>>
    /\ Ended(2) /\ tasks[2].status.total = 2

\* The number of values of batch b attempted before the value apl came up
\* (all of them are smaller than apl), 0 for None.
AttemptedBelow(b, apl) ==
    Cardinality({ k \in 1..Len(tasks[b].apl_values) :
                    tasks[b].apl_values[k] < apl /\ apl # None })

\* The status objects of batch b seen while it runs: the ones passed to
\* _notify_progress and the current one.
RunningSnapshots(b) ==
    { s \in { notified[b][k] : k \in 1..Len(notified[b]) }
               \cup { tasks[b].status } : s.status = "running" }

\* What claim C30 says of the order of the exports of a batch: a step adds
\* at most one attempt, to the batch whose task holds the event loop; the
\* values attempted are strictly ascending; current_apl of a running batch
\* never decreases.
OneAscendingExportAtATime ==
    /\ [](\A b \in DOMAIN tasks :
             \A j, k \in 1..Len(attempted[b]) :
                 j < k => attempted[b][j][1] < attempted[b][k][1])
    /\ [][\A b \in DOMAIN tasks :
             /\ attempted'[b] # attempted[b]
                   => /\ running_task = b
                      /\ Len(attempted'[b]) = Len(attempted[b]) + 1
                      /\ \A c \in DOMAIN tasks \ {b} :
                             attempted'[c] = attempted[c]
             /\ StatusField(b)' = "running"
                   => tasks'[b].status.current_apl
                          >= tasks[b].status.current_apl]_vars

MaxClients == 2

Clients == 1..MaxClients

\* Status objects _notify_progress is called with.
ProgressStatuses ==
    { [status |-> st, total |-> 2, completed |-> c, failed |-> f,
       current_apl |-> a] :
        st \in {"running", "completed", "failed", "cancelled"},
        c \in 0..1, f \in 0..1, a \in {0, 1, 2} }

\* The names the body of _broadcast_progress binds (assignment, for target,
\* import, augmented assignment) and the names it declares global (none).
\* A bound name that is not declared global is a local of the function,
\* unbound until its first assignment.
broadcast_bound_names == {"message", "disconnected", "ws", "asyncio", "_ws_clients"}

broadcast_global_names == {}

\* _broadcast_progress(batch_id, status) with the module's set of clients;
\* unschedulable are the clients for which create_task(ws.send_text(...))
\* raises.  Returns the exception that leaves the function, the send tasks
\* created and the module's set of clients afterwards.
_broadcast_progress(batch_id, status, clients, unschedulable) ==
    LET message == [type |-> "batch_progress", batch_id |-> batch_id,
                    status |-> status.status, total |-> status.total,
                    completed |-> status.completed, failed |-> status.failed,
                    current_apl |-> status.current_apl]
    IN  IF "_ws_clients" \in broadcast_bound_names \ broadcast_global_names
        THEN \* "for ws in _ws_clients" reads the unbound local
             [err |-> "UnboundLocalError", scheduled |-> {},
              clients |-> clients]
        ELSE LET disconnected == clients \cap unschedulable IN
             [err |-> "",
              scheduled |-> { [ws |-> ws, message |-> message] :
                                ws \in clients \ unschedulable },
              clients |-> clients \ disconnected]

\* _notify_progress(batch_id, status) with _broadcast_progress registered:
\* the callback runs inside try / except Exception: pass.
_notify_progress(batch_id, status, clients, unschedulable) ==
    _broadcast_progress(batch_id, status, clients, unschedulable)

InitProgress == ContainerIdle /\ BatchIdle /\ IccIdle /\ ExportIdle

\* websocket_progress up to _ws_clients.add(websocket)
websocket_accept ==
    \E ws \in Clients \ _ws_clients :
        /\ _ws_clients' = _ws_clients \cup {ws}
        /\ UNCHANGED <<impl, batch_jobs, batch_cancel, created_times, tasks,
                       notified, attempted, running_task, now, progress_call>>
        /\ UNCHANGED <<containerVars, iccVars, exportVars>>

\* except WebSocketDisconnect: _ws_clients.discard(websocket)
websocket_disconnect ==
    \E ws \in _ws_clients :
        /\ _ws_clients' = _ws_clients \ {ws}
        /\ UNCHANGED <<impl, batch_jobs, batch_cancel, created_times, tasks,
                       notified, attempted, running_task, now, progress_call>>
        /\ UNCHANGED <<containerVars, iccVars, exportVars>>

\* A call _notify_progress(batch_id, status); the status object is the
\* caller's and is only read.
Call_notify_progress ==
    \E batch_id \in 1..MaxBatches, status \in ProgressStatuses,
       unschedulable \in SUBSET Clients :
        LET r == _notify_progress(batch_id, status, _ws_clients, unschedulable)
        IN  /\ progress_call' =
                   [made |-> TRUE, batch_id |-> batch_id, status |-> status,
                    clients |-> _ws_clients, unschedulable |-> unschedulable,
                    scheduled |-> r.scheduled, clients_after |-> r.clients,
                    err |-> r.err]
            /\ _ws_clients' = r.clients
            /\ UNCHANGED <<impl, batch_jobs, batch_cancel, created_times,
                           tasks, notified, attempted, running_task, now>>
            /\ UNCHANGED <<containerVars, iccVars, exportVars>>

NextProgress ==
    \/ websocket_accept
    \/ websocket_disconnect
    \/ Call_notify_progress

SpecProgress == InitProgress /\ [][NextProgress]_vars

\* C25 (as claimed): every progress notification is broadcast: for each
\* connected client one batch_progress message with the status, total,
\* completed, failed and current_apl of the notified status is scheduled,
\* the clients whose send cannot be scheduled are dropped from the set of
\* clients, and the others stay connected.
C25_EveryNotificationBroadcast ==
    progress_call.made =>
        LET c == progress_call IN
        /\ \A ws \in c.clients \ c.unschedulable :
               \E m \in c.scheduled :
                   /\ m.ws = ws
                   /\ m.message.type = "batch_progress"
                   /\ m.message.batch_id = c.batch_id
                   /\ m.message.status = c.status.status
                   /\ m.message.total = c.status.total
                   /\ m.message.completed = c.status.completed
                   /\ m.message.failed = c.status.failed
                   /\ m.message.current_apl = c.status.current_apl
                   /\ \A n \in c.scheduled : n.ws = ws => n = m
        /\ c.clients_after = c.clients \ c.unschedulable

(***************************************************************************)
(* ICC profiles (core/color_space.py).                                     *)
(***************************************************************************)
\* The members of ColorSpace (core/models.py).
ColorSpaces == {"rec709", "displayP3", "rec2020"}

\* Values get_icc_profile is called with: the members of ColorSpace and one
\* value that is none of them.
ColorSpaceInputs == ColorSpaces \cup {"other"}

\* datetime.datetime.now(timezone.utc) at the time of a build:
\* <<year, month, day, hour, minute, second>>.
Datetimes == { <<2024, 1, 1, 0, 0, 0>>, <<2026, 12, 31, 23, 59, 59>> }

\* b"\x00" * n
Zeros(n) == [i \in 1..n |-> 0]

\* A build that leaves byte strings at their own length.
NoPadding(b) == b

\* while len(b) % 4: b += b"\x00"
PadTo4(b) == b \o Zeros((4 - (Len(b) % 4)) % 4)

\* s15f16(val) for val given as round(val * 65536): struct.pack(">i", ...)
s15f16(fixed) ==
    IF fixed >= 0 THEN PackI(fixed)
    ELSE LET u == PackI((fixed + 2147483647) + 1)
         IN  <<u[1] + 128, u[2], u[3], u[4]>>

\* round(v * 65536) of xy_to_XYZ(0.3127, 0.3290)
white_XYZ == <<62289, 65536, 71372>>

\* round(v * 65536) of the scaled colorants rXYZ, gXYZ, bXYZ for the
\* primaries of Display P3 and of Rec. 2020 (np.linalg.solve, lines 102-114).
Colorants(color_space) ==
    IF color_space = "displayP3"
    THEN [rXYZ |-> <<31888, 15006, 0>>, gXYZ |-> <<17411, 45334, 2957>>,
          bXYZ |-> <<12990, 5196, 68416>>]
    ELSE [rXYZ |-> <<41744, 17216, 0>>, gXYZ |-> <<9478, 44433, 1840>>,
          bXYZ |-> <<11068, 3886, 69533>>]

\* round(v * 65536) of the PCS illuminant D50 (0.9642, 1.0, 0.8249)
D50 == <<63190, 65536, 54061>>

\* round(gamma * 256) for gamma = 2.2
gamma_fixed == 563

\* description.encode("ascii")
Description(color_space) ==
    IF color_space = "displayP3"
    THEN \* "Display P3"
         <<68, 105, 115, 112, 108, 97, 121, 32, 80, 51>>
    ELSE \* "Rec. 2020"
         <<82, 101, 99, 46, 32, 50, 48, 50, 48>>

\* b"desc", b"XYZ ", b"curv"
SigDesc == <<100, 101, 115, 99>>

SigXYZ == <<88, 89, 90, 32>>

SigCurv == <<99, 117, 114, 118>>

\* The desc tag: signature, reserved, length, text, NUL, Unicode and
\* ScriptCode placeholders, padded to a 4-byte boundary.
desc_tag(description) ==
    PadTo4(SigDesc \o Zeros(4) \o PackI(Len(description) + 1) \o description
           \o <<0>> \o Zeros(4) \o Zeros(4) \o Zeros(2) \o <<0>> \o <<0>>
           \o Zeros(67))

xyz_tag(XYZ) ==
    SigXYZ \o Zeros(4) \o s15f16(XYZ[1]) \o s15f16(XYZ[2]) \o s15f16(XYZ[3])

curv_tag == SigCurv \o Zeros(4) \o PackI(1) \o PackH(gamma_fixed) \o Zeros(2)

\* The tags dict in insertion order.  obj is the identity of the bytes object
\* (id(data)): desc and cprt are one object, the three TRC tags are one object.
tags(color_space) ==
    LET c == Colorants(color_space)
        d == desc_tag(Description(color_space))
    IN  << [sig |-> \* "desc"
                    <<100, 101, 115, 99>>, obj |-> 1, data |-> d],
           [sig |-> \* "wtpt"
                    <<119, 116, 112, 116>>, obj |-> 2, data |-> xyz_tag(white_XYZ)],
           [sig |-> \* "rXYZ"
                    <<114, 88, 89, 90>>, obj |-> 3, data |-> xyz_tag(c.rXYZ)],
           [sig |-> \* "gXYZ"
                    <<103, 88, 89, 90>>, obj |-> 4, data |-> xyz_tag(c.gXYZ)],
           [sig |-> \* "bXYZ"
                    <<98, 88, 89, 90>>, obj |-> 5, data |-> xyz_tag(c.bXYZ)],
           [sig |-> \* "rTRC"
                    <<114, 84, 82, 67>>, obj |-> 6, data |-> curv_tag],
           [sig |-> \* "gTRC"
                    <<103, 84, 82, 67>>, obj |-> 6, data |-> curv_tag],
           [sig |-> \* "bTRC"
                    <<98, 84, 82, 67>>, obj |-> 6, data |-> curv_tag],
           [sig |-> \* "cprt"
                    <<99, 112, 114, 116>>, obj |-> 1, data |-> d] >>

header_size == 128

\* data_offset = header_size + tag_table_size
data_offset(tag_count) == header_size + (4 + tag_count * 12)

\* A variant of the test that finds no object stored yet.
never_in_offsets_map(data_id, offsets_map) == FALSE

\* if data_id in offsets_map
in_offsets_map(data_id, offsets_map) == data_id \in DOMAIN offsets_map

\* The loop "for sig, data in tags.items()": the tag entries and tag_data,
\* data written once per object and padded to 4 bytes.
RECURSIVE tag_layout(_, _, _, _, _)
tag_layout(ts, base, tag_entries, tag_data, offsets_map) ==
    IF ts = <<>> THEN [tag_entries |-> tag_entries, tag_data |-> tag_data]
    ELSE LET t == Head(ts) IN
         IF in_offsets_map(t.obj, offsets_map)
         THEN tag_layout(Tail(ts), base,
                         Append(tag_entries, [sig |-> t.sig,
                                              offset |-> offsets_map[t.obj],
                                              size |-> Len(t.data)]),
                         tag_data, offsets_map)
         ELSE LET offset == base + Len(tag_data) IN
              tag_layout(Tail(ts), base,
                         Append(tag_entries, [sig |-> t.sig, offset |-> offset,
                                              size |-> Len(t.data)]),
                         PadTo4(tag_data \o t.data),
                         [x \in DOMAIN offsets_map \cup {t.obj} |->
                              IF x = t.obj THEN offset ELSE offsets_map[x]])

\* The 128-byte header.
icc_header(profile_size, now_utc) ==
    PackI(profile_size)
    \o \* "none"
       <<110, 111, 110, 101>>
    \o PackI(37748736)
    \o \* "mntr"
       <<109, 110, 116, 114>>
    \o \* "RGB "
       <<82, 71, 66, 32>>
    \o \* "XYZ "
       <<88, 89, 90, 32>>
    \o PackH(now_utc[1]) \o PackH(now_utc[2]) \o PackH(now_utc[3])
    \o PackH(now_utc[4]) \o PackH(now_utc[5]) \o PackH(now_utc[6])
    \o \* "acsp"
       <<97, 99, 115, 112>>
    \o \* "MSFT"
       <<77, 83, 70, 84>>
    \o Zeros(4) \o Zeros(4) \o Zeros(4) \o Zeros(8)
    \o PackI(0)
    \o s15f16(D50[1]) \o s15f16(D50[2]) \o s15f16(D50[3])
    \o Zeros(4) \o Zeros(16) \o Zeros(28)

\* table = struct.pack(">I", tag_count) + sig + pack(">II", offset, size) ...
RECURSIVE tag_table_entries(_)
tag_table_entries(entries) ==
    IF entries = <<>> THEN <<>>
    ELSE Head(entries).sig \o PackI(Head(entries).offset)
         \o PackI(Head(entries).size) \o tag_table_entries(Tail(entries))

_create_rgb_profile(color_space, now_utc) ==
    LET ts == tags(color_space)
        tag_count == Len(ts)
        layout == tag_layout(ts, data_offset(tag_count), <<>>, <<>>, <<>>)
        profile_size == data_offset(tag_count) + Len(layout.tag_data)
        header == icc_header(profile_size, now_utc)
        table == PackI(tag_count) \o tag_table_entries(layout.tag_entries)
        profile_bytes == header \o table \o layout.tag_data
    IN  IF Len(header) # 128 THEN Raise("AssertionError")
        ELSE IF Len(profile_bytes) # profile_size THEN Raise("AssertionError")
        ELSE Return(profile_bytes)

\* The tags LittleCMS writes for its built-in sRGB profile, as signature
\* number, payload length and link (0: own data, k: shares the data of tag k).
\* The payloads are not modelled; the lengths are those of the tag types
\* (text description and copyright, XYZ, chromatic adaptation matrix,
\* parametric curve, chromaticity) and vary with the description text.
LcmsTagLengths ==
    { << 46, 20, 44, 20, 20, 20, 32, 32, 32, 36, 61 >>,
      << 42, 20, 44, 20, 20, 20, 32, 32, 32, 36, 86 >> }

\* The tag directory and data LittleCMS (cmsSaveProfileToMem) writes: data of
\* each tag once, the TRC tags linked to the first, every element aligned to
\* 4 bytes.
RECURSIVE lcms_layout(_, _, _, _, _)
lcms_layout(lengths, k, base, tag_entries, tag_data) ==
    IF k > Len(lengths) THEN [tag_entries |-> tag_entries, tag_data |-> tag_data]
    ELSE IF k \in {8, 9}
    THEN lcms_layout(lengths, k + 1, base,
                     Append(tag_entries, [sig |-> PackI(k),
                                          offset |-> tag_entries[7].offset,
                                          size |-> tag_entries[7].size]),
                     tag_data)
    ELSE lcms_layout(lengths, k + 1, base,
                     Append(tag_entries, [sig |-> PackI(k),
                                          offset |-> base + Len(tag_data),
                                          size |-> lengths[k]]),
                     tag_data \o Zeros(lengths[k])
                              \o Zeros((4 - (lengths[k] % 4)) % 4))

\* ImageCmsProfile(createProfile("sRGB")).tobytes(): the profile LittleCMS
\* serializes, header of 128 bytes carrying the total size, then the
\* directory, then the data.
_build_srgb_profile(lengths) ==
    LET tag_count == Len(lengths)
        base == 128 + 4 + 12 * tag_count
        layout == lcms_layout(lengths, 1, base, <<>>, <<>>)
        size == base + Len(layout.tag_data)
    IN  Return(PackI(size) \o Zeros(124)
               \o PackI(tag_count) \o tag_table_entries(layout.tag_entries)
               \o layout.tag_data)

_build_profile_for_color_space(color_space, now_utc, lengths) ==
    IF color_space = "rec709" THEN _build_srgb_profile(lengths)
    ELSE IF color_space = "displayP3" THEN _create_rgb_profile("displayP3", now_utc)
    ELSE IF color_space = "rec2020" THEN _create_rgb_profile("rec2020", now_utc)
    ELSE _build_srgb_profile(lengths)

\* The bytes of a bundled profile file (resources/icc-profiles): any bytes;
\* the model uses a short string that no build produces.
BundledFile(color_space) ==
    IF color_space = "rec709" THEN <<1>>
    ELSE IF color_space = "displayP3" THEN <<2>> ELSE <<3>>

\* _get_icc_profile_path: the path when the mapping names a file that exists,
\* "" for None (get_icc_profile tests "if path").
_get_icc_profile_path(color_space, files) ==
    IF color_space \in ColorSpaces /\ color_space \in files
    THEN color_space ELSE ""

InitIcc ==
    /\ ContainerIdle
    /\ BatchIdle
    /\ ExportIdle
    /\ icc_cache = EmptyDict
    /\ icc_files \in SUBSET ColorSpaces
    /\ icc_result = [color_space |-> "none", err |-> "", bytes |-> <<>>,
                     source |-> "none"]
    /\ icc_threads = IdleThreads

\* get_icc_profile(color_space)
get_icc_profile ==
    \E color_space \in ColorSpaceInputs, now_utc \in Datetimes,
       lengths \in LcmsTagLengths :
        /\ IF color_space \in DOMAIN icc_cache
           THEN /\ icc_result' = [color_space |-> color_space, err |-> "",
                                  bytes |-> icc_cache[color_space],
                                  source |-> "cache"]
                /\ UNCHANGED icc_cache
           ELSE IF _get_icc_profile_path(color_space, icc_files) # ""
           THEN /\ icc_result' = [color_space |-> color_space, err |-> "",
                                  bytes |-> BundledFile(color_space),
                                  source |-> "file"]
                /\ icc_cache' = Put(icc_cache, color_space, BundledFile(color_space))
           ELSE LET data == _build_profile_for_color_space(color_space, now_utc,
                                                           lengths)
                IN  /\ icc_result' = [color_space |-> color_space,
                                      err |-> data.err, bytes |-> data.bytes,
                                      source |-> "built"]
                    /\ icc_cache' = IF data.err = ""
                                    THEN Put(icc_cache, color_space, data.bytes)
                                    ELSE icc_cache
        /\ UNCHANGED <<icc_files, icc_threads>>
        /\ UNCHANGED <<containerVars, batchVars, exportVars>>

NextIcc == get_icc_profile

SpecIcc == InitIcc /\ [][NextIcc]_vars

(***************************************************************************)
(* get_icc_profile called from several threads.  The function takes no     *)
(* lock: a thread may be suspended between the membership test, the        *)
(* loading or building of the data, and the store into _icc_cache.         *)
(***************************************************************************)
InitIccThreads ==
    /\ ContainerIdle
    /\ BatchIdle
    /\ ExportIdle
    /\ icc_cache = EmptyDict
    /\ icc_files \in SUBSET ColorSpaces
    /\ icc_result = [color_space |-> "none", err |-> "", bytes |-> <<>>,
                     source |-> "none"]
    /\ icc_threads = IdleThreads

\* Thread t enters get_icc_profile(color_space): "if color_space in
\* _icc_cache: return _icc_cache[color_space]".
check_cache(t) ==
    \E color_space \in ColorSpaces :
        /\ icc_threads[t].pc = "idle"
        /\ icc_threads' =
               [icc_threads EXCEPT ![t] =
                   IF color_space \in DOMAIN icc_cache
                   THEN [pc |-> "returned", color_space |-> color_space,
                         data |-> <<>>, source |-> "cache",
                         returned |-> icc_cache[color_space]]
                   ELSE [pc |-> "miss", color_space |-> color_space,
                         data |-> <<>>, source |-> "none", returned |-> <<>>]]
        /\ UNCHANGED <<icc_cache, icc_files, icc_result>>
        /\ UNCHANGED <<containerVars, batchVars, exportVars>>

\* Thread t, after a miss: data = f.read() of the bundled file, or
\* data = _build_profile_for_color_space(color_space).  The LittleCMS build
\* is the same for every call of one process.
load_or_build(t) ==
    \E now_utc \in Datetimes :
        LET color_space == icc_threads[t].color_space
            lengths == CHOOSE l \in LcmsTagLengths : TRUE
            from_file == _get_icc_profile_path(color_space, icc_files) # ""
            data == IF from_file THEN Return(BundledFile(color_space))
                    ELSE _build_profile_for_color_space(color_space, now_utc,
                                                        lengths)
        IN  /\ icc_threads[t].pc = "miss"
            /\ icc_threads' =
                   [icc_threads EXCEPT ![t] =
                       [@ EXCEPT !.pc = IF data.err = "" THEN "loaded" ELSE "raised",
                                 !.data = data.bytes,
                                 !.source = IF from_file THEN "file" ELSE "built"]]
            /\ UNCHANGED <<icc_cache, icc_files, icc_result>>
            /\ UNCHANGED <<containerVars, batchVars, exportVars>>

\* Thread t: "_icc_cache[color_space] = data; return data".
store_and_return(t) ==
    /\ icc_threads[t].pc = "loaded"
    /\ icc_cache' = Put(icc_cache, icc_threads[t].color_space, icc_threads[t].data)
    /\ icc_threads' = [icc_threads EXCEPT ![t] =
                           [@ EXCEPT !.pc = "returned",
                                     !.returned = icc_threads[t].data]]
    /\ UNCHANGED <<icc_files, icc_result>>
    /\ UNCHANGED <<containerVars, batchVars, exportVars>>

NextIccThreads ==
    \E t \in Threads : check_cache(t) \/ load_or_build(t) \/ store_and_return(t)

SpecIccThreads == InitIccThreads /\ [][NextIccThreads]_vars

\* C15 (as claimed): for each color space the profile is loaded or built by at
\* most one call, all calls that returned for one color space returned the
\* same bytes, and a store into _icc_cache never replaces an entry by
\* different bytes.
C15_IccCacheThreadSafe ==
    /\ [](\A t1 \in Threads, t2 \in Threads :
            (/\ t1 # t2
             /\ icc_threads[t1].color_space = icc_threads[t2].color_space
             /\ icc_threads[t1].color_space # "none")
                => /\ ~(/\ icc_threads[t1].source \in {"file", "built"}
                        /\ icc_threads[t2].source \in {"file", "built"})
                   /\ (/\ icc_threads[t1].pc = "returned"
                       /\ icc_threads[t2].pc = "returned")
                          => icc_threads[t1].returned = icc_threads[t2].returned)
    /\ [][\A c \in DOMAIN icc_cache : icc_cache'[c] = icc_cache[c]]_vars

\* ---- reading a profile back ----
\* The tag count stored after the header.
IccTagCount(p) == UnpackI(Slice(p, 128, 132))

\* Offset and size of directory entry k (0-based).
IccTagEntry(p, k) ==
    [offset |-> UnpackI(Slice(p, 132 + 12 * k + 4, 132 + 12 * k + 8)),
     size |-> UnpackI(Slice(p, 132 + 12 * k + 8, 132 + 12 * k + 12))]

\* The call built a profile for one of the three color spaces.
Synthesized == icc_result.source = "built" /\ icc_result.color_space \in ColorSpaces

C16_UnknownColorSpaceRejected ==
    (icc_result.color_space \notin ColorSpaces \cup {"none"}) =>
        /\ icc_result.err # ""
        /\ icc_result.bytes = <<>>
        /\ icc_result.color_space \notin DOMAIN icc_cache
\* Signature of directory entry k (0-based).
IccTagSig(p, k) == Slice(p, 132 + 12 * k, 132 + 12 * k + 4)

\* C17: in every profile built by _create_rgb_profile the tag table has the 9
\* entries desc, wtpt, rXYZ, gXYZ, bXYZ, rTRC, gTRC, bTRC, cprt; rTRC, gTRC and
\* bTRC carry one offset and size, cprt carries the offset and size of desc;
\* the entries name 6 different payloads, which fill the data region from
\* 128 + 4 + 12 * 9 to the end of the profile one after the other, each
\* starting where the previous one ends.
C17_IdenticalPayloadsStoredOnce ==
    (icc_result.source = "built"
         /\ icc_result.color_space \in {"displayP3", "rec2020"}) =>
        LET p == icc_result.bytes
            e(k) == IccTagEntry(p, k)
        IN  /\ icc_result.err = ""
            /\ IccTagCount(p) = 9
            /\ IccTagSig(p, 0) = <<100, 101, 115, 99>>
            /\ IccTagSig(p, 5) = <<114, 84, 82, 67>>
            /\ IccTagSig(p, 6) = <<103, 84, 82, 67>>
            /\ IccTagSig(p, 7) = <<98, 84, 82, 67>>
            /\ IccTagSig(p, 8) = <<99, 112, 114, 116>>
            /\ e(6) = e(5)
            /\ e(7) = e(5)
            /\ e(8) = e(0)
            /\ Cardinality({ e(k) : k \in 0..8 }) = 6
            /\ e(0).offset = 128 + 4 + 12 * 9
            /\ \A k \in 0..4 : e(k + 1).offset = e(k).offset + e(k).size
            /\ e(5).offset + e(5).size = Len(p)

\* C17 witness: a Display P3 profile was built; its three TRC entries point at
\* one 16-byte curve and its cprt entry at the desc payload.
C17_Witness ==
    /\ Synthesized
    /\ icc_result.color_space = "displayP3"
    /\ IccTagEntry(icc_result.bytes, 7).size = 16
    /\ IccTagEntry(icc_result.bytes, 7).offset = IccTagEntry(icc_result.bytes, 5).offset
    /\ IccTagEntry(icc_result.bytes, 8).size > 100
(***************************************************************************)
(* Single exports (services/export_service.py).  The builders are named,   *)
(* not run: an outcome is the builder export_single hands the image to and *)
(* the extension of the file it writes, or the exception raised.           *)
(***************************************************************************)
\* _export_hdr_image(img, request, filename, icc_data); heif tells whether
\* pillow_heif can be imported.
_export_hdr_image(hdr, fmt, heif) ==
    IF hdr = "apple-gainmap"
    THEN IF fmt = "heif"
         THEN IF heif
              THEN [err |-> "", builder |-> "create_apple_gainmap_heif", ext |-> ".heic"]
              ELSE [err |-> "RuntimeError", builder |-> "create_apple_gainmap_heif",
                    ext |-> ""]
         ELSE [err |-> "", builder |-> "create_apple_gainmap_jpeg", ext |-> ".jpg"]
    ELSE IF hdr = "ultra-hdr"
    THEN [err |-> "", builder |-> "create_ultra_hdr_jpeg", ext |-> ".jpg"]
    ELSE [err |-> "", builder |-> "img.save PNG", ext |-> ".png"]

InitExport ==
    /\ ContainerIdle
    /\ BatchIdle
    /\ ExportIdle
    /\ icc_cache = EmptyDict
    /\ icc_files \in SUBSET ColorSpaces
    /\ icc_result = [color_space |-> "none", err |-> "", bytes |-> <<>>,
                     source |-> "none"]
    /\ icc_threads = IdleThreads

\* export_single(request), for a request that passed validation; heif and
\* ffmpeg tell whether pillow_heif and FFmpeg are installed.
export_single ==
    \E color_space \in ColorSpaces,
       hdr \in {"none", "apple-gainmap", "ultra-hdr"},
       fmt \in {"png", "jpeg", "heif", "h264", "h265"},
       peak \in Peaks, output_directory \in {"", "out"},
       heif \in BOOLEAN, ffmpeg \in BOOLEAN,
       now_utc \in Datetimes, lengths \in LcmsTagLengths :
        LET \* embed_icc_profile(img, request.color_space)
            icc_data ==
                IF color_space \in DOMAIN icc_cache
                THEN Return(icc_cache[color_space])
                ELSE IF _get_icc_profile_path(color_space, icc_files) # ""
                THEN Return(BundledFile(color_space))
                ELSE _build_profile_for_color_space(color_space, now_utc, lengths)
            written ==
                IF hdr # "none" /\ fmt \in {"png", "jpeg", "heif"}
                THEN _export_hdr_image(hdr, fmt, heif)
                ELSE IF fmt \in {"h264", "h265"}
                THEN IF ~ffmpeg
                     THEN [err |-> "RuntimeError", builder |-> "export_video",
                           ext |-> ""]
                     ELSE IF hdr # "none"
                     THEN \* request.hdr_video_peak_nits is no field of GenerateRequest
                          [err |-> "AttributeError", builder |-> "export_video",
                           ext |-> ""]
                     ELSE [err |-> "", builder |-> "export_video", ext |-> ".mp4"]
                ELSE IF fmt = "png"
                THEN [err |-> "", builder |-> "img.save PNG", ext |-> ".png"]
                ELSE IF fmt = "jpeg"
                THEN [err |-> "", builder |-> "img.save JPEG", ext |-> ".jpg"]
                ELSE IF heif
                     THEN [err |-> "", builder |-> "_save_heif", ext |-> ".heic"]
                     ELSE [err |-> "RuntimeError", builder |-> "_save_heif",
                           ext |-> ""]
        IN  /\ export_fn = "none"
            /\ export_fn' = "export_single"
            /\ export_args' = [color_space |-> color_space, hdr_mode |-> hdr,
                               export_format |-> fmt, hdr_peak_nits |-> peak,
                               output_directory |-> output_directory]
            /\ icc_cache' = IF icc_data.err = ""
                            THEN Put(icc_cache, color_space, icc_data.bytes)
                            ELSE icc_cache
            /\ export_out' =
                   IF icc_data.err # ""
                   THEN [err |-> icc_data.err, builder |-> "none", ext |-> ""]
                   ELSE IF output_directory = ""
                   THEN \* os.makedirs("", exist_ok=True)
                        [err |-> "FileNotFoundError", builder |-> "none", ext |-> ""]
                   ELSE written
            /\ UNCHANGED <<icc_files, icc_result, icc_threads>>
            /\ UNCHANGED <<containerVars, batchVars>>

(***************************************************************************)
(* The 16-bit PNG writer (core/pq.py).  zlib is an external collaborator:  *)
(* zlib.compress is modelled by a zlib stream of one stored block (header, *)
(* block header, the data, Adler-32), and the value of zlib.crc32 by a     *)
(* 4-byte check value computed from the same bytes.                        *)
(***************************************************************************)
\* Adler-32 of the bytes b, from the running sums a and s, as 4 bytes.
RECURSIVE adler32(_, _, _)
adler32(b, a, s) ==
    IF b = <<>> THEN PackH(s) \o PackH(a)
    ELSE adler32(Tail(b), (a + Head(b)) % 65521,
                 (s + ((a + Head(b)) % 65521)) % 65521)

\* zlib.compress(data, level)
zlib_compress(data, level) ==
    <<120, IF level = 9 THEN 218 ELSE 156>>
        \o <<1, Len(data) % 256, Len(data) \div 256,
             255 - (Len(data) % 256), 255 - (Len(data) \div 256)>>
        \o data \o adler32(data, 1, 0)

\* length + chunk_type + data + crc
_png_chunk(chunk_type, data) ==
    PackI(Len(data)) \o chunk_type \o data \o adler32(chunk_type \o data, 1, 0)

\* A variant that marks BT.709 primaries and the sRGB transfer function.
_make_cicp_chunk_sdr == _png_chunk(<<99, 73, 67, 80>>, <<1, 13, 0, 1>>)

\* _png_chunk(b"cICP", struct.pack("BBBB", 9, 16, 0, 1))
_make_cicp_chunk == _png_chunk(<<99, 73, 67, 80>>, <<9, 16, 0, 1>>)

\* b"ICC Profile\x00" + b"\x00" + zlib.compress(icc_data) in an iCCP chunk
_make_iccp_chunk(icc_data) ==
    _png_chunk(<<105, 67, 67, 80>>,
               <<73, 67, 67, 32, 80, 114, 111, 102, 105, 108, 101, 0>>
                   \o <<0>> \o zlib_compress(icc_data, 6))

\* np.clip(pq * 65535.0, 0, 65535) for one 8-bit sample s, in thousandths
\* (rounded down): pq = pq_oetf(np.clip(srgb_eotf(s / 255.0)
\* * (peak_nits / 10000.0), 0.0, 1.0)) in float64.  No value lies within
\* 0.00006 of an integer or of a half, except the exact 65535.0 of s = 255
\* at 10000 nits.
pq_times_65535(s, peak) ==
   (
    IF peak = 200 THEN <<
       47, 3293627, 4431339, 5229321, 5860084, 6388114, 6845537, 7250964,
       7616257, 7949490, 8256438, 8548394, 8836540, 9120279, 9399741, 9675052,
       9946333, 10213700, 10477265, 10737136, 10993416, 11246206, 11495599, 11741688,
       11984563, 12224306, 12461001, 12694725, 12925554, 13153562, 13378817, 13601389,
       13821340, 14038736, 14253635, 14466096, 14676175, 14883927, 15089404, 15292657,
       15493735, 15692684, 15889552, 16084382, 16277217, 16468098, 16657066, 16844160,
       17029418, 17212875, 17394568, 17574530, 17752796, 17929398, 18104367, 18277733,
       18449527, 18619778, 18788512, 18955758, 19121543, 19285891, 19448828, 19610379,
       19770567, 19929415, 20086946, 20243183, 20398146, 20551856, 20704334, 20855599,
       21005672, 21154570, 21302313, 21448917, 21594402, 21738784, 21882080, 22024305,
       22165477, 22305611, 22444722, 22582825, 22719934, 22856065, 22991230, 23125444,
       23258720, 23391071, 23522509, 23653048, 23782700, 23911476, 24039389, 24166450,
       24292670, 24418060, 24542632, 24666395, 24789361, 24911539, 25032939, 25153572,
       25273447, 25392573, 25510960, 25628616, 25745551, 25861774, 25977293, 26092116,
       26206252, 26319708, 26432494, 26544617, 26656084, 26766903, 26877081, 26986626,
       27095546, 27203846, 27311534, 27418617, 27525102, 27630995, 27736302, 27841030,
       27945186, 28048774, 28151803, 28254277, 28356202, 28457584, 28558429, 28658742,
       28758529, 28857796, 28956547, 29054788, 29152524, 29249760, 29346501, 29442753,
       29538519, 29633806, 29728616, 29822956, 29916830, 30010241, 30103196, 30195697,
       30287750, 30379358, 30470527, 30561259, 30651559, 30741432, 30830880, 30919908,
       31008520, 31096720, 31184511, 31271897, 31358882, 31445468, 31531661, 31617463,
       31702878, 31787909, 31872559, 31956833, 32040732, 32124261, 32207422, 32290219,
       32372655, 32454733, 32536455, 32617825, 32698847, 32779521, 32859853, 32939844,
       33019497, 33098815, 33177801, 33256458, 33334787, 33412793, 33490476, 33567841,
       33644889, 33721623, 33798046, 33874159, 33949966, 34025469, 34100669, 34175570,
       34250174, 34324483, 34398500, 34472225, 34545663, 34618814, 34691682, 34764267,
       34836573, 34908602, 34980355, 35051834, 35123042, 35193980, 35264651, 35335056,
       35405198, 35475078, 35544698, 35614060, 35683166, 35752017, 35820616, 35888964,
       35957064, 36024916, 36092522, 36159885, 36227006, 36293886, 36360528, 36426932,
       36493101, 36559036, 36624739, 36690211, 36755454, 36820470, 36885259, 36949824,
       37014165, 37078285, 37142185, 37205867, 37269331, 37332579, 37395613, 37458434,
       37521043, 37583442, 37645632, 37707615, 37769392, 37830963, 37892331, 37953497 >>
    ELSE IF peak = 1000 THEN <<
       47, 6388114, 8256438, 9517199, 10489779, 11289561, 11972725, 12571255,
       13105252, 13588234, 14029771, 14446882, 14855912, 15256216, 15648168, 16032118,
       16408396, 16777309, 17139148, 17494185, 17842676, 18184865, 18520979, 18851235,
       19175838, 19494981, 19808847, 20117613, 20421442, 20720494, 21014916, 21304854,
       21590442, 21871810, 22149084, 22422380, 22691813, 22957491, 23219517, 23477992,
       23733011, 23984665, 24233042, 24478227, 24720300, 24959340, 25195421, 25428617,
       25658996, 25886626, 26111570, 26333893, 26553653, 26770908, 26985716, 27198129,
       27408201, 27615982, 27821521, 28024865, 28226061, 28425152, 28622182, 28817193,
       29010225, 29201317, 29390507, 29577833, 29763330, 29947032, 30128975, 30309190,
       30487710, 30664566, 30839787, 31013403, 31185444, 31355936, 31524906, 31692382,
       31858389, 32022951, 32186093, 32347839, 32508212, 32667235, 32824930, 32981317,
       33136419, 33290255, 33442845, 33594210, 33744367, 33893337, 34041136, 34187782,
       34333293, 34477686, 34620978, 34763184, 34904321, 35044403, 35183447, 35321466,
       35458476, 35594491, 35729524, 35863589, 35996700, 36128870, 36260111, 36390436,
       36519857, 36648386, 36776035, 36902816, 37028739, 37153817, 37278060, 37401478,
       37524082, 37645883, 37766890, 37887114, 38006563, 38125248, 38243178, 38360363,
       38476810, 38592529, 38707530, 38821819, 38935406, 39048299, 39160506, 39272035,
       39382893, 39493090, 39602631, 39711524, 39819778, 39927398, 40034392, 40140767,
       40246530, 40351687, 40456245, 40560211, 40663591, 40766391, 40868617, 40970276,
       41071373, 41171915, 41271907, 41371355, 41470264, 41568640, 41666489, 41763816,
       41860626, 41956924, 42052716, 42148007, 42242801, 42337103, 42430919, 42524253,
       42617109, 42709493, 42801409, 42892862, 42983855, 43074393, 43164481, 43254123,
       43343323, 43432084, 43520412, 43608311, 43695783, 43782833, 43869465, 43955683,
       44041490, 44126891, 44211888, 44296485, 44380687, 44464496, 44547915, 44630949,
       44713601, 44795874, 44877770, 44959295, 45040450, 45121239, 45201665, 45281731,
       45361440, 45440795, 45519799, 45598455, 45676766, 45754735, 45832364, 45909657,
       45986616, 46063243, 46139542, 46215515, 46291165, 46366494, 46441505, 46516200,
       46590583, 46664655, 46738418, 46811876, 46885031, 46957884, 47030439, 47102697,
       47174661, 47246334, 47317716, 47388812, 47459622, 47530149, 47600395, 47670362,
       47740052, 47809467, 47878610, 47947482, 48016086, 48084422, 48152494, 48220303,
       48287851, 48355140, 48422171, 48488948, 48555470, 48621741, 48687762, 48753535,
       48819061, 48884343, 48949382, 49014179, 49078737, 49143056, 49207140, 49270988 >>
    ELSE <<
       47, 14029771, 17156284, 19160046, 20657218, 21860226, 22869382, 23740499,
       24507996, 25194678, 25816463, 26398806, 26965272, 27515387, 28050062, 28570131,
       29076363, 29569466, 30050096, 30518857, 30976314, 31422987, 31859366, 32285904,
       32703026, 33111129, 33510586, 33901748, 34284942, 34660479, 35028650, 35389731,
       35743980, 36091646, 36432959, 36768141, 37097400, 37420937, 37738938, 38051585,
       38359048, 38661489, 38959064, 39251922, 39540203, 39824044, 40103572, 40378913,
       40650185, 40917500, 41180968, 41440694, 41696778, 41949315, 42198399, 42444118,
       42686558, 42925801, 43161927, 43395011, 43625128, 43852349, 44076742, 44298372,
       44517305, 44733601, 44947320, 45158520, 45367256, 45573583, 45777551, 45979213,
       46178616, 46375807, 46570834, 46763740, 46954569, 47143361, 47330159, 47515000,
       47697925, 47878968, 48058168, 48235558, 48411173, 48585046, 48757209, 48927694,
       49096531, 49263750, 49429379, 49593447, 49755981, 49917009, 50076555, 50234645,
       50391304, 50546556, 50700425, 50852933, 51004104, 51153957, 51302516, 51449801,
       51595831, 51740627, 51884209, 52026595, 52167803, 52307852, 52446759, 52584542,
       52721218, 52856802, 52991312, 53124762, 53257169, 53388548, 53518912, 53648278,
       53776658, 53904067, 54030519, 54156026, 54280602, 54404260, 54527012, 54648870,
       54769847, 54889954, 55009202, 55127604, 55245170, 55361911, 55477838, 55592961,
       55707290, 55820837, 55933610, 56045619, 56156874, 56267384, 56377159, 56486207,
       56594537, 56702159, 56809080, 56915308, 57020854, 57125723, 57229925, 57333467,
       57436357, 57538602, 57640211, 57741189, 57841545, 57941285, 58040416, 58138946,
       58236881, 58334227, 58430991, 58527180, 58622799, 58717856, 58812355, 58906303,
       58999707, 59092571, 59184902, 59276705, 59367985, 59458749, 59549001, 59638747,
       59727991, 59816741, 59904999, 59992771, 60080063, 60166878, 60253222, 60339100,
       60424516, 60509474, 60593979, 60678036, 60761649, 60844821, 60927559, 61009865,
       61091743, 61173199, 61254235, 61334856, 61415065, 61494867, 61574266, 61653264,
       61731867, 61810076, 61887897, 61965332, 62042385, 62119059, 62195359, 62271286,
       62346846, 62422040, 62496872, 62571345, 62645462, 62719228, 62792643, 62865713,
       62938438, 63010824, 63082872, 63154585, 63225966, 63297018, 63367744, 63438147,
       63508228, 63577992, 63647440, 63716575, 63785400, 63853917, 63922129, 63990038,
       64057647, 64124957, 64191973, 64258695, 64325126, 64391269, 64457126, 64522699,
       64587990, 64653002, 64717736, 64782196, 64846382, 64910297, 64973944, 65037324,
       65100439, 65163291, 65225883, 65288216, 65350292, 65412114, 65473682, 65535000 >>
   )[s + 1]

\* arr16 for one 8-bit sample s: .astype(np.uint16) drops the fraction.
arr16(s, peak) == pq_times_65535(s, peak) \div 1000

\* image_to_pq_rgb48(img, peak_nits) -> (raw_bytes, width, height): the
\* samples of arr16 row by row, three per pixel, low byte first.
image_to_pq_rgb48(img, peak) ==
    LET w == img.size[1]
        h == img.size[2]
        raw == [i \in 1..(h * w * 6) |->
                   LET y == (i - 1) \div (6 * w)
                       x == ((i - 1) % (6 * w)) \div 6
                       v == arr16(img.pixels[y + 1][x + 1], peak)
                   IN  IF (i - 1) % 2 = 0 THEN v % 256 ELSE v \div 256]
    IN  <<raw, w, h>>

\* The bytes save_pq_png writes to filepath.  img.pixels[y][x] is the 8-bit
\* value of the three channels of pixel (x, y); icc_data is <<>> for None
\* and for b"".
save_pq_png(img, peak, icc_data) ==
    LET w == img.size[1]
        h == img.size[2]
        png_signature == <<137, 80, 78, 71, 13, 10, 26, 10>>
        ihdr_chunk == _png_chunk(<<73, 72, 68, 82>>,
                                 PackI(w) \o PackI(h) \o <<16, 2, 0, 0, 0>>)
        cicp_chunk == _make_cicp_chunk
        iccp_chunk == IF icc_data # <<>> THEN _make_iccp_chunk(icc_data) ELSE <<>>
        row_len == 1 + 6 * w
        raw_rows ==
            [i \in 1..(h * row_len) |->
                LET y == (i - 1) \div row_len
                    k == (i - 1) % row_len
                IN  IF k = 0 THEN 0
                    ELSE LET x == (k - 1) \div 6
                             v == arr16(img.pixels[y + 1][x + 1], peak)
                         IN  IF (k - 1) % 2 = 0 THEN v \div 256 ELSE v % 256]
        idat_chunk == _png_chunk(<<73, 68, 65, 84>>, zlib_compress(raw_rows, 9))
        iend_chunk == _png_chunk(<<73, 69, 78, 68>>, <<>>)
    IN  png_signature \o ihdr_chunk \o cicp_chunk \o iccp_chunk \o idat_chunk
            \o iend_chunk

\* A direct call save_pq_png(img, peak_nits, filepath, icc_data) on a small
\* black-and-white image or on one gray pixel.
Call_save_pq_png ==
    \E size \in {<<1, 1>>, <<2, 1>>, <<1, 2>>, <<2, 2>>}, peak \in Peaks,
       icc_data \in {<<>>, <<1, 2, 3>>} :
        \E pixels \in [1..size[2] -> [1..size[1] ->
                           IF size = <<1, 1>> THEN 0..255 ELSE {0, 255}]] :
            /\ export_fn = "none"
            /\ export_fn' = "save_pq_png"
            /\ export_args' = [img |-> [size |-> size, pixels |-> pixels],
                               peak_nits |-> peak, icc_data |-> icc_data]
            /\ export_out' =
                   [err |-> "",
                    file |-> save_pq_png([size |-> size, pixels |-> pixels],
                                         peak, icc_data)]
            /\ UNCHANGED <<containerVars, batchVars, iccVars>>

\* A direct call image_to_pq_rgb48(img, peak_nits) on a small image.
Call_image_to_pq_rgb48 ==
    \E size \in {<<1, 1>>, <<2, 1>>}, peak \in Peaks :
        \E pixels \in [1..size[2] -> [1..size[1] ->
                           IF size = <<1, 1>> THEN 0..255 ELSE {0, 255}]] :
            /\ export_fn = "none"
            /\ export_fn' = "image_to_pq_rgb48"
            /\ export_args' = [img |-> [size |-> size, pixels |-> pixels],
                               peak_nits |-> peak]
            /\ export_out' =
                   image_to_pq_rgb48([size |-> size, pixels |-> pixels], peak)
            /\ UNCHANGED <<containerVars, batchVars, iccVars>>

(***************************************************************************)
(* The rectangle of a test pattern (core/pattern_generator.py).            *)
(***************************************************************************)
\* Largest width and height calc_rectangle is called with.
MaxSide == 6

\* A variant that rounds up.
ceil_scaled(n, apl_percent) ==
    CHOOSE k \in 0..n :
        /\ 100 * k * k >= n * n * apl_percent
        /\ \A j \in 0..n : 100 * j * j >= n * n * apl_percent => k <= j

\* round(n * scale) with scale = math.sqrt(apl_percent / 100.0): the integer
\* nearest to n * sqrt(apl_percent) / 10, the even one of the two when the
\* product is halfway between them (for the sides of the model the floating
\* point product of a tie is exact).
round_scaled(n, apl_percent) ==
    LET v == n * n * apl_percent
        nearest == { k \in 0..n :
                       /\ k = 0 \/ 25 * (2 * k - 1) * (2 * k - 1) <= v
                       /\ v <= 25 * (2 * k + 1) * (2 * k + 1) }
    IN  CHOOSE k \in nearest : \A j \in nearest : j # k => k % 2 = 0

\* calc_rectangle(width, height, apl_percent) -> (x, y, rect_w, rect_h)
calc_rectangle(width, height, apl_percent) ==
    LET rect_w == round_scaled(width, apl_percent)
        rect_h == round_scaled(height, apl_percent)
        x == (width - rect_w) \div 2
        y == (height - rect_h) \div 2
    IN  <<x, y, rect_w, rect_h>>

\* A direct call calc_rectangle(width, height, apl_percent).
Call_calc_rectangle ==
    \E width \in 1..MaxSide, height \in 1..MaxSide, apl_percent \in 1..100 :
        /\ export_fn = "none"
        /\ export_fn' = "calc_rectangle"
        /\ export_args' = [width |-> width, height |-> height,
                           apl_percent |-> apl_percent]
        /\ export_out' = calc_rectangle(width, height, apl_percent)
        /\ UNCHANGED <<containerVars, batchVars, iccVars>>

NextExport ==
    \/ export_single
    \/ Call_save_pq_png
    \/ Call_image_to_pq_rgb48
    \/ Call_calc_rectangle

SpecExport == InitExport /\ [][NextExport]_vars

\* C18 (as claimed): export_single hands an HDR request with format PNG to the
\* PQ PNG writer save_pq_png and writes a .png file, and for every format and
\* HDR mode the written file has the extension of the requested format.
C18_HdrPngServedByPqPath ==
    (export_fn = "export_single" /\ export_out.err = "") =>
        /\ (export_args.hdr_mode # "none" /\ export_args.export_format = "png")
               => /\ export_out.builder = "save_pq_png"
                  /\ export_out.ext = ".png"
        /\ export_args.export_format = "png" => export_out.ext = ".png"
        /\ export_args.export_format = "jpeg" => export_out.ext = ".jpg"
        /\ export_args.export_format = "heif" => export_out.ext = ".heic"
\* The chunks of the PNG file f from 0-based position pos: type, data and
\* the position after the chunk.
RECURSIVE PngChunks(_, _)
PngChunks(f, pos) ==
    IF pos + 12 > Len(f) THEN <<>>
    ELSE LET n == UnpackI(Slice(f, pos, pos + 4)) IN
         <<[type |-> Slice(f, pos + 4, pos + 8),
            data |-> Slice(f, pos + 8, pos + 8 + n),
            end |-> pos + 12 + n]>> \o PngChunks(f, pos + 12 + n)

\* C19: a file written by save_pq_png is the PNG signature followed by the
\* chunks IHDR, cICP, iCCP, IDAT, IEND in this order and nothing else, the
\* iCCP chunk present exactly when non-empty ICC data was passed; the cICP
\* data is 9, 16, 0, 1 and IHDR carries the image size, bit depth 16 and
\* color type 2.
C19_PqPngChunkOrder ==
    export_fn = "save_pq_png" =>
        LET f == export_out.file
            chunks == PngChunks(f, 8)
            types == [k \in 1..Len(chunks) |-> chunks[k].type]
            IHDR == <<73, 72, 68, 82>>
            cICP == <<99, 73, 67, 80>>
            iCCP == <<105, 67, 67, 80>>
            IDAT == <<73, 68, 65, 84>>
            IEND == <<73, 69, 78, 68>>
        IN  /\ Slice(f, 0, 8) = <<137, 80, 78, 71, 13, 10, 26, 10>>
            /\ types = IF export_args.icc_data # <<>>
                       THEN <<IHDR, cICP, iCCP, IDAT, IEND>>
                       ELSE <<IHDR, cICP, IDAT, IEND>>
            /\ chunks[Len(chunks)].end = Len(f)
            /\ chunks[2].data = <<9, 16, 0, 1>>
            /\ Len(chunks[1].data) = 13
            /\ UnpackI(Slice(chunks[1].data, 0, 4)) = export_args.img.size[1]
            /\ UnpackI(Slice(chunks[1].data, 4, 8)) = export_args.img.size[2]
            /\ chunks[1].data[9] = 16
            /\ chunks[1].data[10] = 2

\* C19 witness: a 2 by 2 image with white and black pixels was written with
\* ICC data; the file has five chunks.
C19_Witness ==
    /\ export_fn = "save_pq_png"
    /\ export_args.img.size = <<2, 2>>
    /\ export_args.img.pixels[1] = <<255, 0>>
    /\ export_args.icc_data # <<>>
    /\ Len(PngChunks(export_out.file, 8)) = 5
\* C20: for widths and heights >= 1 and apl_percent in 1..100, calc_rectangle
\* returns (x, y, rect_w, rect_h) where rect_w is an integer nearest to
\* W * sqrt(apl / 100) and rect_h one nearest to H * sqrt(apl / 100),
\* x = floor((W - rect_w) / 2) and y = floor((H - rect_h) / 2); the rectangle
\* lies inside the frame, and for apl_percent = 100 the result is (0, 0, W, H).
C20_RectangleInsideFrame ==
    export_fn = "calc_rectangle" =>
        LET W == export_args.width
            H == export_args.height
            apl == export_args.apl_percent
            x == export_out[1]
            y == export_out[2]
            rect_w == export_out[3]
            rect_h == export_out[4]
            Nearest(r, n) ==
                /\ r >= 0
                /\ r = 0 \/ 25 * (2 * r - 1) * (2 * r - 1) <= n * n * apl
                /\ n * n * apl <= 25 * (2 * r + 1) * (2 * r + 1)
        IN  /\ Nearest(rect_w, W)
            /\ Nearest(rect_h, H)
            /\ 2 * x <= W - rect_w /\ W - rect_w < 2 * x + 2
            /\ 2 * y <= H - rect_h /\ H - rect_h < 2 * y + 2
            /\ 0 <= x /\ x + rect_w <= W
            /\ 0 <= y /\ y + rect_h <= H
            /\ apl = 100 => export_out = <<0, 0, W, H>>

\* C20 witness: calc_rectangle(5, 3, 25), where both products (2.5 and 1.5)
\* are halfway between two integers, returned (1, 0, 2, 2).
C20_Witness ==
    /\ export_fn = "calc_rectangle"
    /\ export_args = [width |-> 5, height |-> 3, apl_percent |-> 25]
    /\ export_out = <<1, 0, 2, 2>>
\* The 8-bit values of the image img, one per sample, row by row.
SamplesIn(img) ==
    [i \in 1..(img.size[1] * img.size[2] * 3) |->
        img.pixels[((i - 1) \div (3 * img.size[1])) + 1]
                  [(((i - 1) % (3 * img.size[1])) \div 3) + 1]]

\* The 16-bit samples of the image data of a file written by save_pq_png:
\* the payload of the stored deflate block of IDAT, each row after its
\* filter byte, high byte first.
SamplesOfPng(f, w, h) ==
    LET chunks == PngChunks(f, 8)
        idat == chunks[Len(chunks) - 1].data
        raw == SliceFrom(idat, 7)
    IN  [i \in 1..(w * h * 3) |->
            LET y == (i - 1) \div (3 * w)
                k == (i - 1) % (3 * w)
                at == y * (1 + 6 * w) + 1 + 2 * k
            IN  raw[at + 1] * 256 + raw[at + 2]]

\* The 16-bit samples of a raw frame of image_to_pq_rgb48, low byte first.
SamplesOfFrame(raw) ==
    [i \in 1..(Len(raw) \div 2) |-> raw[2 * i - 1] + 256 * raw[2 * i]]

\* C21 (as claimed): every 16-bit sample emitted by save_pq_png and by
\* image_to_pq_rgb48 for an 8-bit sample s and a peak luminance is
\* 65535 * PQ_OETF(clamp(E(s / 255) * peak / 10000, 0, 1)) rounded to the
\* nearest integer, and lies in 0..65535.
C21_PqSampleRoundedToNearest ==
    LET img == export_args.img
        expected == [i \in 1..(img.size[1] * img.size[2] * 3) |->
                        (pq_times_65535(SamplesIn(img)[i],
                                        export_args.peak_nits) + 500)
                            \div 1000]
    IN  /\ export_fn = "save_pq_png" =>
               LET got == SamplesOfPng(export_out.file, img.size[1],
                                       img.size[2])
               IN  /\ got = expected
                   /\ \A i \in DOMAIN got : got[i] \in 0..65535
        /\ export_fn = "image_to_pq_rgb48" =>
               LET got == SamplesOfFrame(export_out[1])
               IN  /\ got = expected
                   /\ \A i \in DOMAIN got : got[i] \in 0..65535

====
